---- MODULE Spec2Model ----
(***************************************************************************)
(* mostro-watchdog: the event loop, the shared HealthMonitor and the       *)
(* periodic health tasks of src/src/main.rs, with the gates of             *)
(* src/src/config.rs.                                                      *)
(*                                                                         *)
(* Text is a sequence of one-character strings, so that comparison is      *)
(* byte-exact and the escaping functions can walk it.  Option<T> is the    *)
(* empty sequence (None) or a one-element sequence (Some).                 *)
(***************************************************************************)
EXTENDS Integers, Sequences, FiniteSets, TLC

VARIABLES
    clock,              \* SystemTime::now(), whole seconds since UNIX_EPOCH
    mono,               \* tokio's monotonic Instant, seconds since process start
    last_event_time,    \* HealthMonitor.last_event_time
    last_heartbeat,     \* HealthMonitor.last_heartbeat
    start_time,         \* HealthMonitor.start_time
    events_processed,   \* HealthMonitor.events_processed
    is_healthy,         \* HealthMonitor.is_healthy
    alerts_config,      \* config::AlertsConfig
    health_config,      \* config::HealthConfig
    ev_pc,              \* position of the handle_notifications closure
    event,              \* the notification being (or last) handled
    delivered,          \* dispute-kind events delivered so far
    ev_sends,           \* send_message calls made for `event`
    ev_msg,             \* the message of the last send_message call for `event`
    ev_result,          \* result of that call: "none", "pending", "ok", "err"
    ev_errors,          \* send_message calls of the event loop that failed
    ev_attempts,        \* send_message calls of the event loop made so far
    hb_pc,              \* heartbeat task: "off", "tick" (interval.tick().await), "send"
    hb_next,            \* heartbeat task: deadline of its next tick (monotonic)
    hb_msg,             \* heartbeat task: the message of its last send_message call
    hb_sends,           \* heartbeat task: send_message calls made
    hb_errors,          \* heartbeat task: send_message calls that failed
    hb_result,          \* heartbeat task: result of the last call
    hb_sent_at,         \* monotonic time at which its last send was started
    es_pc,              \* silence task: "off", "panicked", "tick", "send"
    es_next,            \* silence task: deadline of its next tick (monotonic)
    last_alert,         \* silence task: its local last_alert
    es_now,             \* silence task: its local now
    es_sent_at,         \* monotonic time at which the send in flight was started
    es_prev_sent_at,    \* the same for the last alert that was sent successfully
    es_result,          \* silence task: result of the last call
    http_listener,      \* status probe task: "off", "bind", "listening", "failed"
    http_req,           \* the request being (or last) served, and the fields on its arrival
    http_pc,            \* get_status_json: "idle" or the field read next
    http_snap,          \* get_status_json: the locals read so far
    http_response,      \* the last response of the status probe
    relays,             \* config.nostr.relays, the relays_rc of the relay task
    rc_pc,              \* relay task: "off", "tick", "send", "add_relay", "connect"
    rc_next,            \* relay task: deadline of its next tick (monotonic)
    rc_ticks,           \* relay task: ticks taken so far
    rc_stats,           \* relay task: relay_stats read on the last tick
    rc_failed,          \* relay task: failed_relays of the last tick
    rc_msg,             \* relay task: the counts of its last alert message
    rc_sends,           \* relay task: send_message calls made on the last tick
    rc_result,          \* relay task: result of the last call
    rc_added,           \* relay task: add_relay calls made on the last tick
    rc_add_errors,      \* relay task: how many of those failed
    rc_connects,        \* relay task: connect() calls made on the last tick
    fn_in,              \* argument of the function under call
    fn_out,             \* its result, None until it returned
    lk_pc,              \* per task: the operation of its loop it is at
    lk_held             \* per task: the HealthMonitor locks it holds

ev_vars == <<ev_pc, event, delivered, ev_sends, ev_msg, ev_result, ev_errors,
             ev_attempts>>
hb_vars == <<hb_pc, hb_next, hb_msg, hb_sends, hb_errors, hb_result, hb_sent_at>>
es_vars == <<es_pc, es_next, last_alert, es_now, es_sent_at, es_prev_sent_at, es_result>>
http_vars == <<http_listener, http_req, http_pc, http_snap, http_response>>
rc_vars == <<relays, rc_pc, rc_next, rc_ticks, rc_stats, rc_failed, rc_msg, rc_sends,
             rc_result, rc_added, rc_add_errors, rc_connects>>
fn_vars == <<fn_in, fn_out>>
lk_vars == <<lk_pc, lk_held>>
hm_vars == <<last_event_time, last_heartbeat, start_time, events_processed, is_healthy>>
cfg_vars == <<alerts_config, health_config>>
time_vars == <<clock, mono>>
vars == <<clock, mono, last_event_time, last_heartbeat, start_time,
          events_processed, is_healthy, alerts_config, health_config,
          ev_pc, event, delivered, ev_sends, ev_msg, ev_result, ev_errors,
          ev_attempts,
          hb_pc, hb_next, hb_msg, hb_sends, hb_errors, hb_result, hb_sent_at,
          es_pc, es_next, last_alert, es_now, es_sent_at, es_prev_sent_at, es_result,
          http_listener, http_req, http_pc, http_snap, http_response,
          relays, rc_pc, rc_next, rc_ticks, rc_stats, rc_failed, rc_msg, rc_sends,
          rc_result, rc_added, rc_add_errors, rc_connects,
          fn_in, fn_out, lk_pc, lk_held>>

----------------------------------------------------------------------------
(* Bounds of the model *)

MaxEvents == 2          \* dispute events recorded in one run
MaxTime == 3            \* seconds of monotonic time explored
MaxStepBack == 3        \* total seconds the system clock may be set back

(* Program constants *)

DisputeKind == 38386

----------------------------------------------------------------------------
(* Option<T> *)

None == << >>
Some(x) == <<x>>
IsSome(o) == o # None
Unwrap(o) == o[1]

----------------------------------------------------------------------------
(* Text constants used by the source *)

T_unknown == <<"u","n","k","n","o","w","n">>
T_d == <<"d">>
T_s == <<"s">>
T_initiator == <<"i","n","i","t","i","a","t","o","r">>
T_initiated == <<"i","n","i","t","i","a","t","e","d">>
T_in_progress == <<"i","n","-","p","r","o","g","r","e","s","s">>
T_seller_refunded == <<"s","e","l","l","e","r","-","r","e","f","u","n","d","e","d">>
T_settled == <<"s","e","t","t","l","e","d">>
T_released == <<"r","e","l","e","a","s","e","d">>

----------------------------------------------------------------------------
(* config::AlertsConfig *)

AlertsConfigDefault ==
    [initiated |-> TRUE, in_progress |-> TRUE, seller_refunded |-> TRUE,
     settled |-> TRUE, released |-> TRUE, other |-> TRUE]

AlertsConfigs ==
    [initiated : BOOLEAN, in_progress : BOOLEAN, seller_refunded : BOOLEAN,
     settled : BOOLEAN, released : BOOLEAN, other : BOOLEAN]

(* config::HealthConfig *)

HealthConfigDefault ==
    [heartbeat_enabled |-> TRUE, heartbeat_interval |-> 3600,
     check_relays |-> TRUE, relay_timeout |-> 30,
     event_alert_threshold |-> 7200,
     enable_http_endpoint |-> FALSE, http_port |-> 8080]

----------------------------------------------------------------------------
(* MessageFormatter *)

(* The grave accent cannot be written inside a string of this notation;   *)
(* the character is named instead.                                         *)
BACKTICK == "BACKTICK"
BACKSLASH == "\\"

(* The exclamation mark left out of the array *)
special_chars_NoBang ==
    {"_", "*", "[", "]", "(", ")", "~", BACKTICK, ">", "#", "+", "-", "=", "|",
     "{", "}", "."}

special_chars ==
    {"_", "*", "[", "]", "(", ")", "~", BACKTICK, ">", "#", "+", "-", "=", "|",
     "{", "}", ".", "!"}

RECURSIVE escape_markdown(_)
escape_markdown(text) ==
    IF text = << >> THEN << >>
    ELSE (IF Head(text) \in special_chars THEN <<BACKSLASH, Head(text)>>
          ELSE <<Head(text)>>) \o escape_markdown(Tail(text))

(* Only the backtick escaped *)
RECURSIVE escape_markdown_code_BacktickOnly(_)
escape_markdown_code_BacktickOnly(text) ==
    IF text = << >> THEN << >>
    ELSE (IF Head(text) = BACKTICK
          THEN <<BACKSLASH, Head(text)>>
          ELSE <<Head(text)>>) \o escape_markdown_code_BacktickOnly(Tail(text))

RECURSIVE escape_markdown_code(_)
escape_markdown_code(text) ==
    IF text = << >> THEN << >>
    ELSE (IF Head(text) = BACKTICK \/ Head(text) = BACKSLASH
          THEN <<BACKSLASH, Head(text)>>
          ELSE <<Head(text)>>) \o escape_markdown_code(Tail(text))

----------------------------------------------------------------------------
(* DisputeEventParser: the tag loop of handle_dispute_event *)

ParsedDefault ==
    [dispute_id |-> T_unknown, status |-> T_unknown, initiator |-> T_unknown]

(* First occurrence wins: a field already set is kept *)
ParseTag_FirstWins(acc, tag_vec) ==
    IF Len(tag_vec) >= 2
    THEN CASE tag_vec[1] = T_d /\ acc.dispute_id = T_unknown ->
                [acc EXCEPT !.dispute_id = tag_vec[2]]
           [] tag_vec[1] = T_s /\ acc.status = T_unknown ->
                [acc EXCEPT !.status = tag_vec[2]]
           [] tag_vec[1] = T_initiator /\ acc.initiator = T_unknown ->
                [acc EXCEPT !.initiator = tag_vec[2]]
           [] OTHER -> acc
    ELSE acc

ParseTag(acc, tag_vec) ==
    IF Len(tag_vec) >= 2
    THEN CASE tag_vec[1] = T_d -> [acc EXCEPT !.dispute_id = tag_vec[2]]
           [] tag_vec[1] = T_s -> [acc EXCEPT !.status = tag_vec[2]]
           [] tag_vec[1] = T_initiator -> [acc EXCEPT !.initiator = tag_vec[2]]
           [] OTHER -> acc
    ELSE acc

RECURSIVE ParseTagsFrom(_, _)
ParseTagsFrom(acc, tags) ==
    IF tags = << >> THEN acc
    ELSE ParseTagsFrom(ParseTag(acc, Head(tags)), Tail(tags))

ParseTags(tags) == ParseTagsFrom(ParsedDefault, tags)

----------------------------------------------------------------------------
(* AlertPolicy: the two matches on status of handle_dispute_event *)

(* A copy-and-paste slip: the settled arm reads the initiated switch *)
AlertEnabled_SettledReadsInitiated(status, cfg) ==
    CASE status = T_initiated -> cfg.initiated
      [] status = T_in_progress -> cfg.in_progress
      [] status = T_seller_refunded -> cfg.seller_refunded
      [] status = T_settled -> cfg.initiated
      [] status = T_released -> cfg.released
      [] OTHER -> cfg.other

AlertEnabled(status, cfg) ==
    CASE status = T_initiated -> cfg.initiated
      [] status = T_in_progress -> cfg.in_progress
      [] status = T_seller_refunded -> cfg.seller_refunded
      [] status = T_settled -> cfg.settled
      [] status = T_released -> cfg.released
      [] OTHER -> cfg.other

(* The released arm left out of the second match: it falls to the         *)
(* catch-all template                                                      *)
Message_NoReleasedArm(p, created_at) ==
    CASE p.status = T_initiated ->
           [template |-> "NEW DISPUTE",
            args |-> <<escape_markdown_code(p.dispute_id),
                       escape_markdown(p.initiator)>>,
            created_at |-> created_at]
      [] p.status = T_in_progress ->
           [template |-> "DISPUTE IN PROGRESS",
            args |-> <<escape_markdown_code(p.dispute_id)>>,
            created_at |-> created_at]
      [] p.status = T_seller_refunded ->
           [template |-> "DISPUTE RESOLVED: Seller refunded",
            args |-> <<escape_markdown_code(p.dispute_id)>>,
            created_at |-> created_at]
      [] p.status = T_settled ->
           [template |-> "DISPUTE RESOLVED: Payment to buyer",
            args |-> <<escape_markdown_code(p.dispute_id)>>,
            created_at |-> created_at]
      [] OTHER ->
           [template |-> "DISPUTE STATUS UPDATE",
            args |-> <<escape_markdown_code(p.dispute_id),
                       escape_markdown(p.status)>>,
            created_at |-> created_at]

(* The rendered message: the template chosen and the arguments formatted   *)
(* into it, in order.                                                      *)
Message(p, created_at) ==
    CASE p.status = T_initiated ->
           [template |-> "NEW DISPUTE",
            args |-> <<escape_markdown_code(p.dispute_id),
                       escape_markdown(p.initiator)>>,
            created_at |-> created_at]
      [] p.status = T_in_progress ->
           [template |-> "DISPUTE IN PROGRESS",
            args |-> <<escape_markdown_code(p.dispute_id)>>,
            created_at |-> created_at]
      [] p.status = T_seller_refunded ->
           [template |-> "DISPUTE RESOLVED: Seller refunded",
            args |-> <<escape_markdown_code(p.dispute_id)>>,
            created_at |-> created_at]
      [] p.status = T_settled ->
           [template |-> "DISPUTE RESOLVED: Payment to buyer",
            args |-> <<escape_markdown_code(p.dispute_id)>>,
            created_at |-> created_at]
      [] p.status = T_released ->
           [template |-> "DISPUTE RESOLVED: Released by seller",
            args |-> <<escape_markdown_code(p.dispute_id)>>,
            created_at |-> created_at]
      [] OTHER ->
           [template |-> "DISPUTE STATUS UPDATE",
            args |-> <<escape_markdown_code(p.dispute_id),
                       escape_markdown(p.status)>>,
            created_at |-> created_at]

NoMsg == [template |-> "", args |-> << >>, created_at |-> 0]

----------------------------------------------------------------------------
(* Notifications the relay pool delivers *)

NoNotification == [variant |-> "none", kind |-> 0, created_at |-> 0, tags |-> << >>]

EventOf(kind, tags) ==
    [variant |-> "Event", kind |-> kind, created_at |-> 0, tags |-> tags]

T_abc == <<"a","b","c">>
T_alice == <<"a","l","i","c","e">>
T_Initiated == <<"I","n","i","t","i","a","t","e","d">>
T_settled_sp == <<"s","e","t","t","l","e","d"," ">>

StatusTag(s) == <<T_s, s>>

TagLists ==
    {<< >>,
     <<<<T_d, T_abc>>, StatusTag(T_initiated), <<T_initiator, T_alice>>>>,
     <<<<T_d, T_abc>>, StatusTag(T_in_progress)>>,
     <<<<T_d, T_abc>>, StatusTag(T_seller_refunded)>>,
     <<<<T_d, T_abc>>, StatusTag(T_settled)>>,
     <<<<T_d, T_abc>>, StatusTag(T_released)>>,
     <<<<T_d, T_abc>>, StatusTag(<< >>)>>,
     <<<<T_d, T_abc>>, StatusTag(T_Initiated)>>,
     <<<<T_d, T_abc>>, StatusTag(T_settled_sp)>>,
     <<<<T_d, T_abc>>, StatusTag(T_unknown)>>,
     <<<<T_s>>, <<T_d>>>>,
     <<StatusTag(T_initiated), StatusTag(T_settled)>>,
     <<<<T_alice, T_initiated>>>>}

Notifications ==
    {EventOf(DisputeKind, t) : t \in TagLists}
    \cup {EventOf(1, <<StatusTag(T_initiated)>>),
          EventOf(38383, <<<<T_d, T_abc>>, StatusTag(T_settled)>>),
          [variant |-> "Message", kind |-> 0, created_at |-> 0, tags |-> << >>],
          [variant |-> "Shutdown", kind |-> 0, created_at |-> 0, tags |-> << >>]}

(* The kind test left out: every event is taken for a dispute *)
IsDispute_AnyKind(n) == n.variant = "Event"

IsDispute(n) == n.variant = "Event" /\ n.kind = DisputeKind

----------------------------------------------------------------------------
(* HealthMonitor *)

(* The time stored only over an earlier one, never into an empty field *)
record_event_time_only_refresh ==
    last_event_time' = IF IsSome(last_event_time) THEN Some(clock) ELSE None

record_event_time == last_event_time' = Some(clock)

(* Counting only the events whose alert is enabled *)
record_event_count_alerted_only ==
    events_processed' = events_processed
        + (IF AlertEnabled(ParseTags(event.tags).status, alerts_config) THEN 1 ELSE 0)

(* An assignment written for the increment *)
record_event_count_assigns_one == events_processed' = 1

record_event_count == events_processed' = events_processed + 1

----------------------------------------------------------------------------
(* EventLoop: the closure given to handle_notifications, and               *)
(* handle_dispute_event                                                    *)

(* What the closure returns to handle_notifications: Ok(true) would end    *)
(* the loop, Ok(false) keeps it listening.                                 *)
(* The closure ending the loop when the send failed *)
ClosureReturn_StopOnError(result) == result = "err"

ClosureReturn(result) == FALSE

AfterClosure(exit) == IF exit THEN "exit" ELSE "wait"

(* Each notification handed to a task of its own: the next one is taken    *)
(* while the send for the last is still under way                          *)
Deliver_WhileSending(n) ==
    /\ ev_pc \in {"wait", "send"}
    /\ event' = n
    /\ ev_sends' = 0
    /\ ev_msg' = NoMsg
    /\ ev_result' = "none"
    /\ IF IsDispute(n)
       THEN /\ events_processed < MaxEvents
            /\ record_event_time
            /\ delivered' = delivered + 1
            /\ ev_pc' = "record_event"
       ELSE /\ ev_pc' = AfterClosure(ClosureReturn("none"))
            /\ UNCHANGED <<last_event_time, delivered>>
    /\ UNCHANGED <<last_heartbeat, start_time, events_processed, is_healthy, ev_errors,
                   ev_attempts>>
    /\ UNCHANGED <<cfg_vars, time_vars, hb_vars, es_vars, http_vars>>
    /\ UNCHANGED <<rc_vars, fn_vars, lk_vars>>

(* A notification arrives.  A dispute-kind event enters record_event and   *)
(* takes its first lock; anything else returns Ok(false) at once.          *)
Deliver(n) ==
    /\ ev_pc = "wait"
    /\ event' = n
    /\ ev_sends' = 0
    /\ ev_msg' = NoMsg
    /\ ev_result' = "none"
    /\ IF IsDispute(n)
       THEN /\ events_processed < MaxEvents
            /\ record_event_time
            /\ delivered' = delivered + 1
            /\ ev_pc' = "record_event"
       ELSE /\ ev_pc' = AfterClosure(ClosureReturn("none"))
            /\ UNCHANGED <<last_event_time, delivered>>
    /\ UNCHANGED <<last_heartbeat, start_time, events_processed, is_healthy, ev_errors,
                   ev_attempts>>
    /\ UNCHANGED <<cfg_vars, time_vars, hb_vars, es_vars, http_vars>>
    /\ UNCHANGED <<rc_vars, fn_vars, lk_vars>>

(* record_event, second lock *)
RecordEventCount ==
    /\ ev_pc = "record_event"
    /\ record_event_count
    /\ ev_pc' = "handle"
    /\ UNCHANGED <<last_event_time, last_heartbeat, start_time, is_healthy>>
    /\ UNCHANGED <<event, delivered, ev_sends, ev_msg, ev_result, ev_errors,
                   ev_attempts>>
    /\ UNCHANGED <<cfg_vars, time_vars, hb_vars, es_vars, http_vars>>
    /\ UNCHANGED <<rc_vars, fn_vars, lk_vars>>

(* handle_dispute_event up to the send_message call *)
HandleDisputeEvent ==
    /\ ev_pc = "handle"
    /\ LET p == ParseTags(event.tags)
           alert_enabled == AlertEnabled(p.status, alerts_config)
       IN IF ~alert_enabled
          THEN /\ ev_pc' = AfterClosure(ClosureReturn("skipped"))
               /\ UNCHANGED <<ev_sends, ev_msg, ev_result, ev_attempts>>
          ELSE /\ ev_msg' = Message(p, event.created_at)
               /\ ev_sends' = ev_sends + 1
               /\ ev_attempts' = ev_attempts + 1
               /\ ev_result' = "pending"
               /\ ev_pc' = "send"
    /\ UNCHANGED <<event, delivered, ev_errors>>
    /\ UNCHANGED <<hm_vars, cfg_vars, time_vars, hb_vars, es_vars, http_vars>>
    /\ UNCHANGED <<rc_vars, fn_vars, lk_vars>>

(* A failed send made again at once *)
SendAlertResult_RetryOnError(ok) ==
    /\ ev_pc = "send"
    /\ ev_errors' = IF ok THEN ev_errors ELSE ev_errors + 1
    /\ IF ok
       THEN /\ ev_result' = "ok"
            /\ ev_pc' = AfterClosure(ClosureReturn(ev_result'))
            /\ UNCHANGED <<ev_sends, ev_attempts>>
       ELSE /\ ev_result' = "pending"
            /\ ev_sends' = ev_sends + 1
            /\ ev_attempts' = ev_attempts + 1
            /\ ev_pc' = "send"
    /\ UNCHANGED <<event, delivered, ev_msg>>
    /\ UNCHANGED <<hm_vars, cfg_vars, time_vars, hb_vars, es_vars, http_vars>>
    /\ UNCHANGED <<rc_vars, fn_vars, lk_vars>>

(* send_message returns; either way the closure returns Ok(false) *)
SendAlertResult(ok) ==
    /\ ev_pc = "send"
    /\ ev_result' = IF ok THEN "ok" ELSE "err"
    /\ ev_errors' = IF ok THEN ev_errors ELSE ev_errors + 1
    /\ ev_pc' = AfterClosure(ClosureReturn(ev_result'))
    /\ UNCHANGED <<event, delivered, ev_sends, ev_msg, ev_attempts>>
    /\ UNCHANGED <<hm_vars, cfg_vars, time_vars, hb_vars, es_vars, http_vars>>
    /\ UNCHANGED <<rc_vars, fn_vars, lk_vars>>

----------------------------------------------------------------------------
(* The clocks *)

BootClock == 2 * MaxStepBack + 10

AdvanceTime ==
    /\ mono < MaxTime
    /\ mono' = mono + 1
    /\ clock' = clock + 1
    /\ UNCHANGED <<hm_vars, cfg_vars, ev_vars, hb_vars, es_vars, http_vars>>
    /\ UNCHANGED <<rc_vars, fn_vars, lk_vars>>

(* The system clock is set back by d seconds (SystemTime is not monotonic) *)
ClockStepBack(d) ==
    /\ (BootClock + mono) - (clock - d) <= MaxStepBack
    /\ clock' = clock - d
    /\ UNCHANGED <<mono, hm_vars, cfg_vars, ev_vars, hb_vars, es_vars, http_vars>>
    /\ UNCHANGED <<rc_vars, fn_vars, lk_vars>>

----------------------------------------------------------------------------
(* Durations *)

UNIX_EPOCH == 0

(* Duration::MAX.as_secs() is u64::MAX; any value above every threshold    *)
(* and every clock reading of the model stands for it.                     *)
DURATION_MAX_SECS == 2147483647

(* SystemTime::duration_since: Err when `earlier` is later than `t` *)
DurationSince(t, earlier) == IF t >= earlier THEN Some(t - earlier) ELSE None

(* SystemTime::elapsed *)
Elapsed(t) == DurationSince(clock, t)

UnwrapOr(o, default) == IF IsSome(o) THEN Unwrap(o) ELSE default

(* Elapsed seconds since last_event_time, Duration::MAX when the clock    *)
(* reads earlier; the variant is the same with Duration::ZERO.            *)
LastEventElapsed_OrZero(last) == UnwrapOr(Elapsed(last), 0)

LastEventElapsed(last) == UnwrapOr(Elapsed(last), DURATION_MAX_SECS)

(* HealthMonitor::should_alert_no_events *)
should_alert_no_events(threshold_seconds) ==
    IF threshold_seconds = 0 THEN FALSE
    ELSE IF last_event_time = None
         THEN UnwrapOr(Elapsed(start_time), 0) > threshold_seconds
         ELSE LastEventElapsed(Unwrap(last_event_time)) > threshold_seconds

----------------------------------------------------------------------------
(* tokio::time::interval with MissedTickBehavior::Skip *)

(* interval() asserts that the period is not zero *)
IntervalPanics(period) == period = 0

(* MissedTickBehavior::Burst: the next deadline is one period after the    *)
(* last, however late the tick was                                         *)
NextTick_Burst(deadline, period, now) == deadline + period

(* The deadline after a tick that completed at `now`: deadline + period    *)
(* when on time, else the next multiple of the period after `now`.         *)
NextTick(deadline, period, now) == now + period - ((now - deadline) % period)

----------------------------------------------------------------------------
(* Heartbeat task *)

NoHeartbeatMsg == [hours |-> 0, minutes |-> 0, events_count |-> 0]

HeartbeatTick ==
    /\ hb_pc = "tick"
    /\ mono >= hb_next
    /\ hb_next' = NextTick(hb_next, health_config.heartbeat_interval, mono)
    /\ LET uptime == UnwrapOr(Elapsed(start_time), 0)
           events_count == events_processed
       IN hb_msg' = [hours |-> uptime \div 3600,
                     minutes |-> (uptime % 3600) \div 60,
                     events_count |-> events_count]
    /\ hb_sends' = hb_sends + 1
    /\ hb_result' = "pending"
    /\ hb_sent_at' = Some(mono)
    /\ hb_pc' = "send"
    /\ UNCHANGED <<hb_errors>>
    /\ UNCHANGED <<hm_vars, cfg_vars, time_vars, ev_vars, es_vars, http_vars>>
    /\ UNCHANGED <<rc_vars, fn_vars, lk_vars>>

(* HealthMonitor::record_heartbeat *)
record_heartbeat == last_heartbeat' = Some(clock)

(* The heartbeat recorded whatever the send returned *)
HeartbeatSendResult_AlwaysRecords(ok) ==
    /\ hb_pc = "send"
    /\ record_heartbeat
    /\ hb_errors' = IF ok THEN hb_errors ELSE hb_errors + 1
    /\ hb_result' = IF ok THEN "ok" ELSE "err"
    /\ hb_pc' = "tick"
    /\ UNCHANGED <<hb_next, hb_msg, hb_sends, hb_sent_at>>
    /\ UNCHANGED <<last_event_time, start_time, events_processed, is_healthy>>
    /\ UNCHANGED <<cfg_vars, time_vars, ev_vars, es_vars, http_vars>>
    /\ UNCHANGED <<rc_vars, fn_vars, lk_vars>>

HeartbeatSendResult(ok) ==
    /\ hb_pc = "send"
    /\ IF ok
       THEN /\ record_heartbeat
            /\ UNCHANGED hb_errors
       ELSE /\ hb_errors' = hb_errors + 1
            /\ UNCHANGED last_heartbeat
    /\ hb_result' = IF ok THEN "ok" ELSE "err"
    /\ hb_pc' = "tick"
    /\ UNCHANGED <<hb_next, hb_msg, hb_sends, hb_sent_at>>
    /\ UNCHANGED <<last_event_time, start_time, events_processed, is_healthy>>
    /\ UNCHANGED <<cfg_vars, time_vars, ev_vars, es_vars, http_vars>>
    /\ UNCHANGED <<rc_vars, fn_vars, lk_vars>>

----------------------------------------------------------------------------
(* Event silence task *)

SilenceTick ==
    /\ es_pc = "tick"
    /\ mono >= es_next
    /\ LET threshold == health_config.event_alert_threshold
       IN /\ es_next' = NextTick(es_next, threshold \div 2, mono)
          /\ IF should_alert_no_events(threshold)
                /\ UnwrapOr(DurationSince(clock, last_alert), DURATION_MAX_SECS)
                       >= threshold
             THEN /\ es_now' = clock
                  /\ es_sent_at' = Some(mono)
                  /\ es_result' = "pending"
                  /\ es_pc' = "send"
             ELSE /\ es_now' = IF should_alert_no_events(threshold)
                               THEN clock ELSE es_now
                  /\ UNCHANGED <<es_sent_at, es_result, es_pc>>
    /\ UNCHANGED <<last_alert, es_prev_sent_at>>
    /\ UNCHANGED <<hm_vars, cfg_vars, time_vars, ev_vars, hb_vars, http_vars>>
    /\ UNCHANGED <<rc_vars, fn_vars, lk_vars>>

(* A silence alert that went out marks the monitor unhealthy *)
SilenceSendResult_MarksUnhealthy(ok) ==
    /\ es_pc = "send"
    /\ IF ok
       THEN /\ last_alert' = es_now
            /\ es_prev_sent_at' = es_sent_at
       ELSE UNCHANGED <<last_alert, es_prev_sent_at>>
    /\ is_healthy' = IF ok THEN FALSE ELSE is_healthy
    /\ es_result' = IF ok THEN "ok" ELSE "err"
    /\ es_pc' = "tick"
    /\ UNCHANGED <<es_next, es_now, es_sent_at>>
    /\ UNCHANGED <<last_event_time, last_heartbeat, start_time, events_processed>>
    /\ UNCHANGED <<cfg_vars, time_vars, ev_vars, hb_vars, http_vars>>
    /\ UNCHANGED <<rc_vars, fn_vars, lk_vars>>

SilenceSendResult(ok) ==
    /\ es_pc = "send"
    /\ IF ok
       THEN /\ last_alert' = es_now
            /\ es_prev_sent_at' = es_sent_at
       ELSE UNCHANGED <<last_alert, es_prev_sent_at>>
    /\ es_result' = IF ok THEN "ok" ELSE "err"
    /\ es_pc' = "tick"
    /\ UNCHANGED <<es_next, es_now, es_sent_at>>
    /\ UNCHANGED <<hm_vars, cfg_vars, time_vars, ev_vars, hb_vars, http_vars>>
    /\ UNCHANGED <<rc_vars, fn_vars, lk_vars>>

----------------------------------------------------------------------------
(* Status probe: get_status_json reads the four fields one lock at a time *)

NoSnapshot ==
    [last_event |-> None, last_heartbeat |-> None, events_count |-> 0]

NoResponse == [status |-> 0, body |-> "none"]

(* Option<SystemTime> to the JSON value: seconds since the epoch or null *)
TimestampJson(o) ==
    IF IsSome(o) /\ IsSome(DurationSince(Unwrap(o), UNIX_EPOCH))
    THEN Some(Unwrap(DurationSince(Unwrap(o), UNIX_EPOCH)))
    ELSE None

(* A copy-and-paste slip: the heartbeat field formatted from last_event *)
StatusJson_HeartbeatFromEvent(last_event, last_hb, events_count, healthy, uptime_secs) ==
    [status |-> IF healthy THEN "healthy" ELSE "unhealthy",
     uptime_seconds |-> uptime_secs,
     events_processed |-> events_count,
     last_event_timestamp |-> TimestampJson(last_event),
     last_heartbeat_timestamp |-> TimestampJson(last_event)]

StatusJson(last_event, last_hb, events_count, healthy, uptime_secs) ==
    [status |-> IF healthy THEN "healthy" ELSE "unhealthy",
     uptime_seconds |-> uptime_secs,
     events_processed |-> events_count,
     last_event_timestamp |-> TimestampJson(last_event),
     last_heartbeat_timestamp |-> TimestampJson(last_hb)]

NoRequest ==
    [path |-> "none", events_processed |-> 0,
     last_event_time |-> None, last_heartbeat |-> None]

(* TcpListener::bind returns: the accept loop is entered, or                *)
(* start_health_server returns the error and the task ends                 *)
HttpBind(ok) ==
    /\ http_listener = "bind"
    /\ http_listener' = IF ok THEN "listening" ELSE "failed"
    /\ UNCHANGED <<http_req, http_pc, http_snap, http_response>>
    /\ UNCHANGED <<hm_vars, cfg_vars, time_vars, ev_vars, hb_vars, es_vars>>
    /\ UNCHANGED <<rc_vars, fn_vars, lk_vars>>

(* listener.accept() returns an error: start_health_server returns it and  *)
(* the task ends; a connection already accepted is served to its end       *)
HttpAcceptError ==
    /\ http_listener = "listening"
    /\ http_listener' = "failed"
    /\ UNCHANGED <<http_req, http_pc, http_snap, http_response>>
    /\ UNCHANGED <<hm_vars, cfg_vars, time_vars, ev_vars, hb_vars, es_vars>>
    /\ UNCHANGED <<rc_vars, fn_vars, lk_vars>>

(* A connection is accepted and its request arrives; for /health the       *)
(* first field is read.  http_req keeps the path and, for the properties,  *)
(* the fields as they were on arrival.                                     *)
HttpRequest(path) ==
    /\ http_listener = "listening"
    /\ http_pc = "idle"
    /\ http_req' = [path |-> path, events_processed |-> events_processed,
                    last_event_time |-> last_event_time,
                    last_heartbeat |-> last_heartbeat]
    /\ UNCHANGED http_listener
    /\ IF path = "/health"
       THEN /\ http_snap' = [NoSnapshot EXCEPT !.last_event = last_event_time]
            /\ http_pc' = "read_last_heartbeat"
            /\ UNCHANGED http_response
       ELSE /\ http_response' = [status |-> 404, body |-> "Not Found"]
            /\ UNCHANGED <<http_pc, http_snap>>
    /\ UNCHANGED <<hm_vars, cfg_vars, time_vars, ev_vars, hb_vars, es_vars>>
    /\ UNCHANGED <<rc_vars, fn_vars, lk_vars>>

HttpReadLastHeartbeat ==
    /\ http_pc = "read_last_heartbeat"
    /\ http_snap' = [http_snap EXCEPT !.last_heartbeat = last_heartbeat]
    /\ http_pc' = "read_events_processed"
    /\ UNCHANGED http_response
    /\ UNCHANGED <<http_listener, http_req>>
    /\ UNCHANGED <<hm_vars, cfg_vars, time_vars, ev_vars, hb_vars, es_vars>>
    /\ UNCHANGED <<rc_vars, fn_vars, lk_vars>>

HttpReadEventsProcessed ==
    /\ http_pc = "read_events_processed"
    /\ http_snap' = [http_snap EXCEPT !.events_count = events_processed]
    /\ http_pc' = "read_is_healthy"
    /\ UNCHANGED http_response
    /\ UNCHANGED <<http_listener, http_req>>
    /\ UNCHANGED <<hm_vars, cfg_vars, time_vars, ev_vars, hb_vars, es_vars>>
    /\ UNCHANGED <<rc_vars, fn_vars, lk_vars>>

(* The last field is read, the body is formatted and the response sent *)
HttpRespond ==
    /\ http_pc = "read_is_healthy"
    /\ http_response' =
          [status |-> 200,
           body |-> StatusJson(http_snap.last_event, http_snap.last_heartbeat,
                               http_snap.events_count, is_healthy,
                               UnwrapOr(Elapsed(start_time), 0))]
    /\ http_pc' = "idle"
    /\ UNCHANGED http_snap
    /\ UNCHANGED <<http_listener, http_req>>
    /\ UNCHANGED <<hm_vars, cfg_vars, time_vars, ev_vars, hb_vars, es_vars>>
    /\ UNCHANGED <<rc_vars, fn_vars, lk_vars>>

----------------------------------------------------------------------------
(* Relay connectivity task *)

MaxRelays == 2          \* relays configured, and distinct relay URLs
MaxTicks == 2           \* ticks of the relay task followed

RELAY_CHECK_SECS == 300

RelayUrls == 1..MaxRelays

(* nostr_sdk::relay::RelayStatus, and "absent" for a relay that            *)
(* relay_stats has no entry for                                            *)
RelayStatuses == {"Connecting", "Connected", "Disconnected"}

StatReports == [RelayUrls -> RelayStatuses \cup {"absent"}]

NoStats == [u \in RelayUrls |-> "absent"]

(* The counts formatted into the alert *)
NoRelayMsg == [failed |-> 0, connected |-> 0]

(* A relay without an entry taken for connected *)
IsFailed_AbsentIsFine(stats, relay_url) ==
    stats[relay_url] \notin {"absent", "Connected"}

(* The two pushes of the loop over relays_rc *)
IsFailed(stats, relay_url) ==
    IF stats[relay_url] # "absent"
    THEN stats[relay_url] # "Connected"
    ELSE TRUE

RECURSIVE FailedRelays(_, _)
FailedRelays(stats, urls) ==
    IF urls = << >> THEN << >>
    ELSE (IF IsFailed(stats, Head(urls)) THEN <<Head(urls)>> ELSE << >>)
         \o FailedRelays(stats, Tail(urls))

(* interval.tick() returns; the status report is read, the failed relays   *)
(* are collected and, if there are any, the alert is formatted and its     *)
(* send started.                                                           *)
RelayTick(stats) ==
    /\ rc_pc = "tick"
    /\ mono >= rc_next
    /\ rc_ticks < MaxTicks
    /\ rc_next' = NextTick(rc_next, RELAY_CHECK_SECS, mono)
    /\ rc_ticks' = rc_ticks + 1
    /\ rc_stats' = stats
    /\ rc_failed' = FailedRelays(stats, relays)
    /\ rc_added' = << >>
    /\ rc_add_errors' = 0
    /\ rc_connects' = 0
    /\ IF rc_failed' # << >>
       THEN /\ rc_msg' = [failed |-> Len(rc_failed'),
                          connected |-> Len(relays) - Len(rc_failed')]
            /\ rc_sends' = 1
            /\ rc_result' = "pending"
            /\ rc_pc' = "send"
       ELSE /\ rc_msg' = NoRelayMsg
            /\ rc_sends' = 0
            /\ rc_result' = "none"
            /\ rc_pc' = "tick"
    /\ UNCHANGED <<relays, fn_vars, lk_vars>>
    /\ UNCHANGED <<hm_vars, cfg_vars, time_vars, ev_vars, hb_vars, es_vars, http_vars>>

(* A relay alert marks the monitor unhealthy *)
RelaySendResult_MarksUnhealthy(ok) ==
    /\ rc_pc = "send"
    /\ rc_result' = IF ok THEN "ok" ELSE "err"
    /\ rc_pc' = "add_relay"
    /\ is_healthy' = FALSE
    /\ UNCHANGED <<relays, rc_next, rc_ticks, rc_stats, rc_failed, rc_msg, rc_sends,
                   rc_added, rc_add_errors, rc_connects, fn_vars, lk_vars>>
    /\ UNCHANGED <<last_event_time, last_heartbeat, start_time, events_processed>>
    /\ UNCHANGED <<cfg_vars, time_vars, ev_vars, hb_vars, es_vars, http_vars>>

(* send_message returns; either way the reconnection loop follows *)
RelaySendResult(ok) ==
    /\ rc_pc = "send"
    /\ rc_result' = IF ok THEN "ok" ELSE "err"
    /\ rc_pc' = "add_relay"
    /\ UNCHANGED <<relays, rc_next, rc_ticks, rc_stats, rc_failed, rc_msg, rc_sends,
                   rc_added, rc_add_errors, rc_connects, fn_vars, lk_vars>>
    /\ UNCHANGED <<hm_vars, cfg_vars, time_vars, ev_vars, hb_vars, es_vars, http_vars>>

(* The batch given up at the first add_relay that fails *)
RelayAddRelay_AbortOnError(ok) ==
    /\ rc_pc = "add_relay"
    /\ rc_added' = Append(rc_added, rc_failed[Len(rc_added) + 1])
    /\ rc_add_errors' = IF ok THEN rc_add_errors ELSE rc_add_errors + 1
    /\ rc_pc' = IF ~ok THEN "tick"
                ELSE IF Len(rc_added') = Len(rc_failed) THEN "connect"
                ELSE "add_relay"
    /\ UNCHANGED <<relays, rc_next, rc_ticks, rc_stats, rc_failed, rc_msg, rc_sends,
                   rc_result, rc_connects, fn_vars, lk_vars>>
    /\ UNCHANGED <<hm_vars, cfg_vars, time_vars, ev_vars, hb_vars, es_vars, http_vars>>

(* One turn of the loop over failed_relays: add_relay returns *)
RelayAddRelay(ok) ==
    /\ rc_pc = "add_relay"
    /\ rc_added' = Append(rc_added, rc_failed[Len(rc_added) + 1])
    /\ rc_add_errors' = IF ok THEN rc_add_errors ELSE rc_add_errors + 1
    /\ rc_pc' = IF Len(rc_added') = Len(rc_failed) THEN "connect" ELSE "add_relay"
    /\ UNCHANGED <<relays, rc_next, rc_ticks, rc_stats, rc_failed, rc_msg, rc_sends,
                   rc_result, rc_connects, fn_vars, lk_vars>>
    /\ UNCHANGED <<hm_vars, cfg_vars, time_vars, ev_vars, hb_vars, es_vars, http_vars>>

(* client.connect() returns; back to interval.tick() *)
RelayConnect ==
    /\ rc_pc = "connect"
    /\ rc_connects' = rc_connects + 1
    /\ rc_pc' = "tick"
    /\ UNCHANGED <<relays, rc_next, rc_ticks, rc_stats, rc_failed, rc_msg, rc_sends,
                   rc_result, rc_added, rc_add_errors, fn_vars, lk_vars>>
    /\ UNCHANGED <<hm_vars, cfg_vars, time_vars, ev_vars, hb_vars, es_vars, http_vars>>

(* Time passes until the next deadline of the relay task *)
RelayPeriodPasses ==
    /\ rc_pc = "tick"
    /\ mono < rc_next
    /\ rc_ticks < MaxTicks
    /\ mono' = rc_next
    /\ clock' = clock + (rc_next - mono)
    /\ UNCHANGED <<hm_vars, cfg_vars, ev_vars, hb_vars, es_vars, http_vars>>
    /\ UNCHANGED <<rc_vars, fn_vars, lk_vars>>

----------------------------------------------------------------------------
(* The RwLocks of HealthMonitor: each task as the sequence of the lock     *)
(* accesses and of the awaits (timer, notification, network, send) of one  *)
(* turn of its loop.  A guard is a temporary of its statement and is       *)
(* dropped at the end of it (keep FALSE); a guard bound to a variable      *)
(* would live to the end of the function (keep TRUE).                      *)

Tasks == {"ev", "hb", "es", "rc", "http1", "http2"}

Await(what) == [kind |-> "await", field |-> what, keep |-> FALSE, optional |-> FALSE]
ReadLock(f) == [kind |-> "read", field |-> f, keep |-> FALSE, optional |-> FALSE]
WriteLock(f) == [kind |-> "write", field |-> f, keep |-> FALSE, optional |-> FALSE]
KeptReadLock(f) == [kind |-> "read", field |-> f, keep |-> TRUE, optional |-> FALSE]

(* The closure of handle_notifications: record_event, handle_dispute_event *)
EventLoopProgram ==
    <<Await("notification"), WriteLock("last_event_time"),
      WriteLock("events_processed"), Await("send_message")>>

(* record_heartbeat is reached only when the send succeeded *)
HeartbeatProgram ==
    <<Await("tick"), ReadLock("events_processed"), Await("send_message"),
      [WriteLock("last_heartbeat") EXCEPT !.optional = TRUE]>>

(* should_alert_no_events, then the send *)
SilenceProgram ==
    <<Await("tick"), ReadLock("last_event_time"), Await("send_message")>>

RelayProgram ==
    <<Await("tick"), Await("stats"), Await("send_message"), Await("add_relay"),
      Await("connect")>>

(* The guards of get_status_json bound to variables and kept to its end *)
HttpProgram_GuardsKept ==
    <<Await("request"), KeptReadLock("last_event_time"),
      KeptReadLock("last_heartbeat"), KeptReadLock("events_processed"),
      KeptReadLock("is_healthy"), Await("response")>>

(* One connection: the request is read, get_status_json, the response is   *)
(* written                                                                 *)
HttpProgram ==
    <<Await("request"), ReadLock("last_event_time"), ReadLock("last_heartbeat"),
      ReadLock("events_processed"), ReadLock("is_healthy"), Await("response")>>

Program(t) ==
    CASE t = "ev" -> EventLoopProgram
      [] t = "hb" -> HeartbeatProgram
      [] t = "es" -> SilenceProgram
      [] t = "rc" -> RelayProgram
      [] OTHER -> HttpProgram

Op(t) == Program(t)[lk_pc[t]]

NextOp(t) == IF lk_pc[t] = Len(Program(t)) THEN 1 ELSE lk_pc[t] + 1

(* The guards that live on after the operation at which t is: none when    *)
(* the function returns at the end of the turn                             *)
GuardsAfter(t, held) == IF NextOp(t) = 1 THEN {} ELSE held

(* tokio::sync::RwLock: a writer excludes everyone, a reader excludes      *)
(* writers                                                                 *)
Available(t, op) ==
    \A u \in Tasks \ {t} :
        \A g \in lk_held[u] :
            g.field = op.field => (op.kind = "read" /\ g.kind = "read")

HoldsOwn(t) == [kind |-> Op(t).kind, field |-> Op(t).field] \in lk_held[t]

(* An await of t completes *)
LockAwaitDone(t) ==
    /\ Op(t).kind = "await"
    /\ lk_pc' = [lk_pc EXCEPT ![t] = NextOp(t)]
    /\ lk_held' = [lk_held EXCEPT ![t] = GuardsAfter(t, lk_held[t])]
    /\ UNCHANGED <<hm_vars, cfg_vars, time_vars, ev_vars, hb_vars, es_vars,
                   http_vars, rc_vars, fn_vars>>

(* .read().await or .write().await of t returns the guard *)
LockAcquire(t) ==
    /\ Op(t).kind \in {"read", "write"}
    /\ ~HoldsOwn(t)
    /\ Available(t, Op(t))
    /\ lk_held' = [lk_held EXCEPT
                      ![t] = @ \cup {[kind |-> Op(t).kind, field |-> Op(t).field]}]
    /\ UNCHANGED <<lk_pc, hm_vars, cfg_vars, time_vars, ev_vars, hb_vars, es_vars,
                   http_vars, rc_vars, fn_vars>>

(* The statement of t that took the guard ends *)
LockStatementEnd(t) ==
    /\ Op(t).kind \in {"read", "write"}
    /\ HoldsOwn(t)
    /\ lk_pc' = [lk_pc EXCEPT ![t] = NextOp(t)]
    /\ lk_held' = [lk_held EXCEPT
                      ![t] = GuardsAfter(t,
                                 IF Op(t).keep THEN @
                                 ELSE @ \ {[kind |-> Op(t).kind, field |-> Op(t).field]})]
    /\ UNCHANGED <<hm_vars, cfg_vars, time_vars, ev_vars, hb_vars, es_vars,
                   http_vars, rc_vars, fn_vars>>

(* The branch of t that does not reach the access *)
LockSkip(t) ==
    /\ Op(t).optional
    /\ ~HoldsOwn(t)
    /\ lk_pc' = [lk_pc EXCEPT ![t] = NextOp(t)]
    /\ lk_held' = [lk_held EXCEPT ![t] = GuardsAfter(t, lk_held[t])]
    /\ UNCHANGED <<hm_vars, cfg_vars, time_vars, ev_vars, hb_vars, es_vars,
                   http_vars, rc_vars, fn_vars>>

----------------------------------------------------------------------------
(* The event loop under every AlertsConfig *)

InitCommon ==
    /\ clock = BootClock
    /\ mono = 0
    /\ last_event_time = None
    /\ last_heartbeat = None
    /\ start_time = BootClock
    /\ events_processed = 0
    /\ is_healthy = TRUE
    /\ ev_pc = "wait"
    /\ event = NoNotification
    /\ delivered = 0
    /\ ev_sends = 0
    /\ ev_msg = NoMsg
    /\ ev_result = "none"
    /\ ev_errors = 0
    /\ ev_attempts = 0
    /\ hb_next = 0
    /\ hb_msg = NoHeartbeatMsg
    /\ hb_sends = 0
    /\ hb_errors = 0
    /\ hb_result = "none"
    /\ hb_sent_at = None
    /\ es_next = 0
    /\ last_alert = UNIX_EPOCH
    /\ es_now = UNIX_EPOCH
    /\ es_sent_at = None
    /\ es_prev_sent_at = None
    /\ es_result = "none"
    /\ http_req = NoRequest
    /\ http_pc = "idle"
    /\ http_snap = NoSnapshot
    /\ http_response = NoResponse
    /\ rc_next = 0
    /\ rc_ticks = 0
    /\ rc_stats = NoStats
    /\ rc_failed = << >>
    /\ rc_msg = NoRelayMsg
    /\ rc_sends = 0
    /\ rc_result = "none"
    /\ rc_added = << >>
    /\ rc_add_errors = 0
    /\ rc_connects = 0
    /\ lk_pc = [t \in Tasks |-> 1]
    /\ lk_held = [t \in Tasks |-> {}]

(* No function call is followed on its own *)
NoCall == fn_in = [fn |-> "none", arg |-> << >>] /\ fn_out = None

(* One relay configured *)
OneRelay == relays = <<1>>

(* Config::load: the checks made on a health section that is present; an   *)
(* absent section is replaced by HealthConfig::default() in main           *)
ConfigLoadAccepts(health) ==
    /\ ~(health.heartbeat_enabled /\ health.heartbeat_interval = 0)
    /\ health.relay_timeout # 0

(* The heartbeat task spawned whatever its switch says *)
TasksStarted_HeartbeatAlways ==
    /\ hb_pc = "tick"
    /\ es_pc = IF health_config.event_alert_threshold > 0
               THEN (IF IntervalPanics(health_config.event_alert_threshold \div 2)
                     THEN "panicked" ELSE "tick")
               ELSE "off"
    /\ rc_pc = IF health_config.check_relays THEN "tick" ELSE "off"
    /\ http_listener = IF health_config.enable_http_endpoint THEN "bind" ELSE "off"

(* start_health_tasks: which tasks are spawned *)
TasksStarted ==
    /\ hb_pc = IF health_config.heartbeat_enabled THEN "tick" ELSE "off"
    /\ es_pc = IF health_config.event_alert_threshold > 0
               THEN (IF IntervalPanics(health_config.event_alert_threshold \div 2)
                     THEN "panicked" ELSE "tick")
               ELSE "off"
    /\ rc_pc = IF health_config.check_relays THEN "tick" ELSE "off"
    /\ http_listener = IF health_config.enable_http_endpoint THEN "bind" ELSE "off"

(* The health tasks switched off *)
HealthConfigOff ==
    [HealthConfigDefault EXCEPT !.heartbeat_enabled = FALSE,
                                !.check_relays = FALSE,
                                !.event_alert_threshold = 0]

Init ==
    /\ InitCommon
    /\ NoCall
    /\ OneRelay
    /\ alerts_config \in AlertsConfigs
    /\ health_config = HealthConfigOff
    /\ TasksStarted

Next ==
    \/ \E n \in Notifications : Deliver(n)
    \/ RecordEventCount
    \/ HandleDisputeEvent
    \/ \E ok \in BOOLEAN : SendAlertResult(ok)

Spec == Init /\ [][Next]_vars

----------------------------------------------------------------------------
(* The HealthMonitor under the event loop, the status probe and the clock *)

MaxThreshold == 2       \* largest event_alert_threshold configured
MaxInterval == 2        \* largest heartbeat_interval configured

(* One well-formed dispute event *)
PlainNotifications ==
    {EventOf(DisputeKind, <<<<T_d, T_abc>>, StatusTag(T_initiated)>>)}

(* Every switch of AlertsConfig off *)
AlertsConfigOff ==
    [initiated |-> FALSE, in_progress |-> FALSE, seller_refunded |-> FALSE,
     settled |-> FALSE, released |-> FALSE, other |-> FALSE]

(* The event loop with every alert switched off: nothing is ever sent *)
EventLoopStep ==
    \/ \E n \in PlainNotifications : Deliver(n)
    \/ RecordEventCount
    \/ HandleDisputeEvent

ClockStep ==
    \/ AdvanceTime
    \/ \E d \in 1..MaxStepBack : ClockStepBack(d)

InitHealth ==
    /\ InitCommon
    /\ NoCall
    /\ OneRelay
    /\ alerts_config = AlertsConfigOff
    /\ health_config = [HealthConfigOff EXCEPT !.enable_http_endpoint = TRUE]
    /\ TasksStarted

NextHealth ==
    \/ EventLoopStep
    \/ ClockStep
    \/ \E ok \in BOOLEAN : HttpBind(ok)
    \/ \E path \in {"/health", "/"} : HttpRequest(path)
    \/ HttpReadLastHeartbeat
    \/ HttpReadEventsProcessed
    \/ HttpRespond

SpecHealth == InitHealth /\ [][NextHealth]_vars

(* The heartbeat task *)

InitHeartbeat ==
    /\ InitCommon
    /\ NoCall
    /\ OneRelay
    /\ alerts_config = AlertsConfigOff
    /\ \E i \in 1..MaxInterval :
          health_config = [HealthConfigOff EXCEPT !.heartbeat_enabled = TRUE,
                                                  !.heartbeat_interval = i]
    /\ TasksStarted

NextHeartbeat ==
    \/ HeartbeatTick
    \/ \E ok \in BOOLEAN : HeartbeatSendResult(ok)
    \/ EventLoopStep
    \/ ClockStep

SpecHeartbeat == InitHeartbeat /\ [][NextHeartbeat]_vars

(* The event silence task *)

InitSilence ==
    /\ InitCommon
    /\ NoCall
    /\ OneRelay
    /\ alerts_config = AlertsConfigOff
    /\ \E t \in 0..MaxThreshold :
          health_config = [HealthConfigOff EXCEPT !.event_alert_threshold = t]
    /\ TasksStarted

NextSilence ==
    \/ SilenceTick
    \/ \E ok \in BOOLEAN : SilenceSendResult(ok)
    \/ EventLoopStep
    \/ ClockStep

SpecSilence == InitSilence /\ [][NextSilence]_vars

----------------------------------------------------------------------------
(* Properties of the event loop *)

NamedStatuses ==
    {T_initiated, T_in_progress, T_seller_refunded, T_settled, T_released}

(* The status category of a status string, as the name of its switch *)
CategoryOf(status) ==
    IF status = T_initiated THEN "initiated"
    ELSE IF status = T_in_progress THEN "in_progress"
    ELSE IF status = T_seller_refunded THEN "seller_refunded"
    ELSE IF status = T_settled THEN "settled"
    ELSE IF status = T_released THEN "released"
    ELSE "other"

TemplateOf(category) ==
    [initiated |-> "NEW DISPUTE",
     in_progress |-> "DISPUTE IN PROGRESS",
     seller_refunded |-> "DISPUTE RESOLVED: Seller refunded",
     settled |-> "DISPUTE RESOLVED: Payment to buyer",
     released |-> "DISPUTE RESOLVED: Released by seller",
     other |-> "DISPUTE STATUS UPDATE"][category]

DisputeDelivered == event.variant = "Event" /\ event.kind = 38386

EventStatus == ParseTags(event.tags).status

GateOfEvent == alerts_config[CategoryOf(EventStatus)]

(* C1: a delivered dispute-kind event gets exactly one send call when the  *)
(* switch of its own status category is on and none when it is off,        *)
(* whatever the other five switches are.                                   *)
C1_OneSendIffGateEnabled ==
    DisputeDelivered =>
        /\ ev_pc \in {"record_event", "handle"} => ev_sends = 0
        /\ ev_pc = "send" => GateOfEvent /\ ev_sends = 1
        /\ ev_pc = "wait" => ev_sends = (IF GateOfEvent THEN 1 ELSE 0)

C1_Witness ==
    /\ DisputeDelivered
    /\ EventStatus = T_settled
    /\ ~alerts_config.initiated
    /\ alerts_config.settled
    /\ ev_pc = "wait"
    /\ ev_sends = 1
    /\ ev_result = "ok"

(* C2: a status that is not exactly one of the five named strings (the     *)
(* empty string, a case variant, the default "unknown") is decided by the  *)
(* other switch and rendered with the fallback template; each named        *)
(* string is decided by its own switch and rendered with its own template. *)
C2_StatusDispatch ==
    DisputeDelivered /\ ev_pc \in {"send", "wait"} =>
        LET cat == IF EventStatus \in NamedStatuses
                   THEN CategoryOf(EventStatus) ELSE "other"
        IN /\ (ev_sends > 0) = alerts_config[cat]
           /\ ev_sends > 0 => ev_msg.template = TemplateOf(cat)

C2_Witness ==
    /\ DisputeDelivered
    /\ EventStatus = << >>
    /\ alerts_config.other
    /\ ~alerts_config.initiated
    /\ ev_pc = "wait"
    /\ ev_sends = 1
    /\ ev_msg.template = "DISPUTE STATUS UPDATE"

NoUsableTags(tags) ==
    \A i \in 1..Len(tags) :
        Len(tags[i]) < 2 \/ tags[i][1] \notin {T_d, T_s, T_initiator}

(* C8: the loop never ends on a per-event failure: after a failed send it  *)
(* is listening again, later dispute-kind events are recorded and gated    *)
(* as before, and an event without usable tags is handled as all-unknown   *)
(* and sent exactly when the other switch is on.                           *)
C8_LoopSurvivesFailures ==
    /\ ev_pc # "exit"
    /\ ev_result = "err" => ev_pc = "wait"
    /\ ev_errors > 0 /\ DisputeDelivered /\ ev_pc \in {"handle", "send", "wait"}
           => events_processed = delivered
    /\ ev_errors > 0 /\ DisputeDelivered /\ ev_pc \in {"send", "wait"}
           => (ev_sends = 1) = GateOfEvent
    /\ DisputeDelivered /\ NoUsableTags(event.tags) /\ ev_pc \in {"send", "wait"}
           => /\ (ev_sends = 1) = alerts_config.other
              /\ ev_sends = 1 =>
                    /\ ev_msg.template = "DISPUTE STATUS UPDATE"
                    /\ ev_msg.args = <<T_unknown, T_unknown>>

C8_Witness ==
    /\ ev_errors = 1
    /\ delivered = 2
    /\ events_processed = 2
    /\ DisputeDelivered
    /\ NoUsableTags(event.tags)
    /\ ev_pc = "wait"
    /\ ev_result = "ok"

(* C9: a notification that is not an event of kind 38386 is ignored: the   *)
(* step that takes it leaves every HealthMonitor field as it was, makes    *)
(* no send call and leaves the loop listening.                             *)
C9_OtherNotificationsIgnored ==
    [][(event' # event /\ ~(event'.variant = "Event" /\ event'.kind = 38386))
          => /\ UNCHANGED <<last_event_time, last_heartbeat, start_time,
                            events_processed, is_healthy>>
             /\ ev_sends' = 0
             /\ ev_msg' = NoMsg
             /\ ev_pc' = "wait"]_vars

C9_Witness ==
    /\ event.variant = "Event"
    /\ event.kind = 1
    /\ ev_pc = "wait"
    /\ events_processed = 1
    /\ IsSome(last_event_time)
    /\ ev_sends = 0

(* C10: every dispute-kind event is recorded exactly once, and before the  *)
(* gate is consulted or anything is sent: events_processed counts the      *)
(* events whose alert was suppressed or whose send failed like the others. *)
C10_RecordedBeforeGate ==
    /\ ev_pc = "record_event" => events_processed = delivered - 1 /\ ev_sends = 0
    /\ ev_pc \in {"handle", "send", "wait"} => events_processed = delivered

C10_Witness ==
    /\ DisputeDelivered
    /\ ~GateOfEvent
    /\ ev_pc = "wait"
    /\ ev_sends = 0
    /\ ev_errors = 1
    /\ delivered = 2
    /\ events_processed = 2

----------------------------------------------------------------------------
(* Properties of the HealthMonitor and of the health tasks *)

(* C3: should_alert_no_events(0) is false in every state; for a threshold  *)
(* above 0 it is true exactly when the whole seconds since start_time (no  *)
(* event recorded) or since last_event_time (an event recorded) are more   *)
(* than the threshold.                                                     *)
C3_SilenceDecision ==
    \A t \in {0, health_config.event_alert_threshold} :
        should_alert_no_events(t) =
            /\ t > 0
            /\ IF last_event_time = None
               THEN clock - start_time > t
               ELSE clock - Unwrap(last_event_time) > t

(* C4: two silence alerts that were sent successfully are started at       *)
(* least event_alert_threshold seconds apart.                              *)
C4_AlertsThresholdApart ==
    [][(es_pc = "send" /\ es_result' = "ok" /\ IsSome(es_prev_sent_at))
          => Unwrap(es_sent_at) - Unwrap(es_prev_sent_at)
                >= health_config.event_alert_threshold]_vars

(* C5, as claimed: no snapshot pairs a last_event_timestamp that is set    *)
(* with an events_processed of 0, or the reverse.                          *)
C5_SnapshotNeverTorn ==
    http_response.status = 200 =>
        (IsSome(http_response.body.last_event_timestamp)
            <=> http_response.body.events_processed > 0)

(* C5, amended: record_event is atomic field by field.  Between its two    *)
(* writes last_event_time is set and events_processed is one behind the    *)
(* calls started; outside a call last_event_time is set exactly when       *)
(* events_processed is above 0; a snapshot reports, for each field, a      *)
(* value the field has held.                                               *)
C5_FieldLevelAtomicity ==
    /\ ev_pc = "record_event"
          => IsSome(last_event_time) /\ events_processed = delivered - 1
    /\ ev_pc # "record_event"
          => /\ events_processed = delivered
             /\ IsSome(last_event_time) <=> events_processed > 0
    /\ http_response.status = 200
          => /\ http_response.body.events_processed <= events_processed
             /\ IsSome(http_response.body.last_event_timestamp)
                   => IsSome(last_event_time)

C5_Witness ==
    /\ http_response.status = 200
    /\ IsSome(http_response.body.last_event_timestamp)
    /\ http_response.body.events_processed = 0
    /\ events_processed = 1

RecordEventCountStep == ev_pc = "record_event" /\ ev_pc' = "handle"

(* C6, as claimed: events_processed starts at 0 with both times absent     *)
(* and is_healthy true, never decreases and grows by one per record_event  *)
(* call; last_event_time, once set, is never cleared and never replaced    *)
(* by an earlier time.                                                     *)
C6_LastEventNeverEarlier ==
    /\ events_processed = 0 /\ last_event_time = None
          /\ last_heartbeat = None /\ is_healthy = TRUE
    /\ [][/\ events_processed' =
                events_processed + (IF RecordEventCountStep THEN 1 ELSE 0)
          /\ IsSome(last_event_time)
                => /\ IsSome(last_event_time')
                   /\ Unwrap(last_event_time') >= Unwrap(last_event_time)]_vars

(* C6, amended: as claimed, but last_event_time is replaced by an earlier  *)
(* time exactly when the system clock has been set back below it by the    *)
(* time of the next record_event call.                                     *)
C6_CounterAndLastEvent ==
    /\ events_processed = 0 /\ last_event_time = None
          /\ last_heartbeat = None /\ is_healthy = TRUE
    /\ [][/\ events_processed' =
                events_processed + (IF RecordEventCountStep THEN 1 ELSE 0)
          /\ IsSome(last_event_time)
                => /\ IsSome(last_event_time')
                   /\ Unwrap(last_event_time') < Unwrap(last_event_time)
                         => /\ clock < Unwrap(last_event_time)
                            /\ ev_pc = "wait" /\ ev_pc' = "record_event"]_vars

C6_Witness ==
    /\ events_processed = 2
    /\ ev_pc = "wait"
    /\ IsSome(last_event_time)
    /\ Unwrap(last_event_time) < BootClock

(* C7: last_heartbeat changes only when a heartbeat send has succeeded; a  *)
(* failed send leaves it as it was, is not repeated within the tick, and   *)
(* leaves the task waiting for its next tick.                              *)
C7_HeartbeatOnlyAfterSuccess ==
    /\ last_heartbeat = None
    /\ [][/\ last_heartbeat' # last_heartbeat
                => hb_pc = "send" /\ hb_result' = "ok"
          /\ (hb_pc = "send" /\ hb_result' = "err")
                => /\ UNCHANGED <<last_heartbeat, hb_sends>>
                   /\ hb_pc' = "tick"
          /\ hb_sends' # hb_sends
                => /\ hb_sends' = hb_sends + 1
                   /\ hb_pc = "tick" /\ mono >= hb_next /\ hb_next' > mono]_vars

C7_Witness ==
    /\ hb_errors = 1
    /\ hb_sends = 2
    /\ hb_result = "ok"
    /\ hb_pc = "tick"
    /\ IsSome(last_heartbeat)

(* C19: once an event is recorded, should_alert_no_events(t) is true only *)
(* if more than t seconds have elapsed since last_event_time, for every    *)
(* reading of the system clock, one earlier than last_event_time included. *)
C19_TrueOnlyIfElapsedExceeds ==
    IsSome(last_event_time) =>
        \A t \in 1..MaxThreshold :
            should_alert_no_events(t) => clock - Unwrap(last_event_time) > t

(* A tick of the silence task *)
SilenceTickStep == es_pc = "tick" /\ es_next' # es_next

(* C20: last_alert changes only when a silence alert send has succeeded; a *)
(* failed send leaves it as it was, and the next tick on which             *)
(* should_alert_no_events holds sends the alert again.                     *)
C20_RetryAfterFailedSend ==
    [][/\ last_alert' # last_alert => es_pc = "send" /\ es_result' = "ok"
       /\ (es_pc = "send" /\ es_result' = "err")
             => last_alert' = last_alert /\ es_pc' = "tick"
       /\ (SilenceTickStep /\ es_result = "err"
              /\ should_alert_no_events(health_config.event_alert_threshold))
             => es_pc' = "send"]_vars

----------------------------------------------------------------------------
(* The status probe beside the event loop and the heartbeat task *)

InitProbe ==
    /\ InitCommon
    /\ NoCall
    /\ OneRelay
    /\ alerts_config = AlertsConfigOff
    /\ health_config = [HealthConfigOff EXCEPT !.enable_http_endpoint = TRUE,
                                               !.heartbeat_enabled = TRUE,
                                               !.heartbeat_interval = MaxInterval]
    /\ TasksStarted

NextProbe ==
    \/ EventLoopStep
    \/ HeartbeatTick
    \/ \E ok \in BOOLEAN : HeartbeatSendResult(ok)
    \/ \E ok \in BOOLEAN : HttpBind(ok)
    \/ HttpAcceptError
    \/ \E path \in {"/health", "/healthz"} : HttpRequest(path)
    \/ HttpReadLastHeartbeat
    \/ HttpReadEventsProcessed
    \/ HttpRespond

SpecProbe == InitProbe /\ [][NextProbe]_vars

(* record_event calls that have returned *)
CompletedRecordEvents == delivered - (IF ev_pc = "record_event" THEN 1 ELSE 0)

(* Nothing was recorded while the last request was served *)
QuietSinceRequest ==
    /\ http_req.events_processed = events_processed
    /\ http_req.last_event_time = last_event_time
    /\ http_req.last_heartbeat = last_heartbeat

(* The last reply against the HealthMonitor *)
ProbeReflectsState ==
    /\ events_processed = CompletedRecordEvents
    /\ http_pc = "idle" /\ http_req.path = "/health" =>
          /\ http_response.status = 200
          /\ http_response.body.events_processed
                \in http_req.events_processed..events_processed
          /\ http_response.body.last_event_timestamp = None
                => http_req.last_event_time = None
          /\ IsSome(http_response.body.last_event_timestamp)
                => IsSome(last_event_time)
          /\ http_response.body.last_heartbeat_timestamp = None
                => http_req.last_heartbeat = None
          /\ IsSome(http_response.body.last_heartbeat_timestamp)
                => IsSome(last_heartbeat)
          /\ QuietSinceRequest =>
                /\ http_response.body.events_processed = CompletedRecordEvents
                /\ http_response.body.last_event_timestamp = last_event_time
                /\ http_response.body.last_heartbeat_timestamp = last_heartbeat
    /\ http_pc = "idle" /\ http_req.path \notin {"none", "/health"} =>
          http_response = [status |-> 404, body |-> "Not Found"]

(* C14: a request to /health is answered 200 with a payload that reflects  *)
(* the HealthMonitor as it is while the request is served: events_processed *)
(* is the number of record_event calls that have returned, each timestamp   *)
(* is null exactly when nothing was recorded (all of it exactly so when     *)
(* nothing is recorded during the request, and otherwise between the state  *)
(* on arrival and the state on reply); any other path is answered 404;      *)
(* serving a request changes no HealthMonitor field.                        *)
C14_StatusProbe ==
    /\ []ProbeReflectsState
    /\ [][http_req' # http_req \/ http_pc' # http_pc \/ http_response' # http_response
             => UNCHANGED <<last_event_time, last_heartbeat, start_time,
                            events_processed, is_healthy>>]_vars

C14_Witness ==
    /\ http_pc = "idle"
    /\ http_req.path = "/health"
    /\ QuietSinceRequest
    /\ http_response.status = 200
    /\ http_response.body.events_processed = 1
    /\ IsSome(http_response.body.last_event_timestamp)
    /\ IsSome(http_response.body.last_heartbeat_timestamp)

(* C15: each background task, once started, is in its running state in   *)
(* every state: no send error, no bind or accept error and no accepted     *)
(* configuration value ends a task.                                        *)
C15_TasksKeepRunning ==
    /\ hb_pc \in {"off", "tick", "send"}
    /\ es_pc \in {"off", "tick", "send"}
    /\ rc_pc \in {"off", "tick", "send", "add_relay", "connect"}
    /\ http_listener \in {"off", "bind", "listening"}

----------------------------------------------------------------------------
(* The relay connectivity task *)

RelayLists == UNION {[1..k -> RelayUrls] : k \in 1..MaxRelays}

InitRelay ==
    /\ InitCommon
    /\ NoCall
    /\ relays \in RelayLists
    /\ alerts_config = AlertsConfigOff
    /\ health_config = [HealthConfigOff EXCEPT !.check_relays = TRUE]
    /\ TasksStarted

NextRelay ==
    \/ \E stats \in StatReports : RelayTick(stats)
    \/ \E ok \in BOOLEAN : RelaySendResult(ok)
    \/ \E ok \in BOOLEAN : RelayAddRelay(ok)
    \/ RelayConnect
    \/ RelayPeriodPasses

SpecRelay == InitRelay /\ [][NextRelay]_vars

(* How many times u occurs in the list *)
Occurrences(list, u) == Cardinality({i \in 1..Len(list) : list[i] = u})

(* C12: on a tick a configured relay is failed exactly when the status     *)
(* report has no entry for it or its entry is not Connected; with a failed *)
(* relay exactly one alert send is made, carrying the number of failed     *)
(* relays and the number of configured relays less the failed; without     *)
(* one nothing is sent and no reconnection is attempted on that tick.      *)
C12_RelayClassification ==
    rc_ticks > 0 =>
        /\ \A u \in RelayUrls :
              Occurrences(rc_failed, u) =
                  IF rc_stats[u] = "Connected" THEN 0 ELSE Occurrences(relays, u)
        /\ rc_failed # << >> =>
              /\ rc_sends = 1
              /\ rc_msg = [failed |-> Len(rc_failed),
                           connected |-> Len(relays) - Len(rc_failed)]
        /\ rc_failed = << >> =>
              /\ rc_sends = 0
              /\ rc_added = << >>
              /\ rc_connects = 0
              /\ rc_pc = "tick"

C12_Witness ==
    /\ rc_ticks = 2
    /\ Len(relays) = 2
    /\ relays[1] # relays[2]
    /\ rc_stats[relays[1]] = "absent"
    /\ rc_stats[relays[2]] = "Connected"
    /\ rc_msg = [failed |-> 1, connected |-> 1]
    /\ rc_sends = 1
    /\ rc_pc = "tick"

(* C13: on a tick with failed relays add_relay is attempted for each of    *)
(* them, in order, and connect() is then called once, whether the alert    *)
(* send succeeded or not and whether an earlier add_relay failed or not;   *)
(* the task is then waiting for its next tick.                             *)
C13_ReconnectBestEffort ==
    /\ rc_connects <= 1
    /\ rc_connects = 1 => rc_pc = "tick"
    /\ rc_pc \in {"tick", "connect"} /\ rc_failed # << >> => rc_added = rc_failed
    /\ rc_pc = "tick" /\ rc_failed # << >> => rc_connects = 1
    /\ rc_pc \in {"send", "add_relay", "connect"} =>
          /\ rc_failed # << >>
          /\ rc_connects = 0
          /\ \A i \in 1..Len(rc_added) : rc_added[i] = rc_failed[i]
    /\ rc_pc \notin {"tick", "send", "add_relay", "connect"} => rc_pc = "off"

C13_Witness ==
    /\ rc_pc = "tick"
    /\ rc_result = "err"
    /\ Len(rc_failed) = 2
    /\ rc_add_errors = 2
    /\ rc_added = rc_failed
    /\ rc_connects = 1
    /\ rc_ticks < MaxTicks

----------------------------------------------------------------------------
(* The tag loop of handle_dispute_event called on its own *)

MaxTags == 3            \* longest tag list parsed

(* Tags of zero to three elements, with the three keys and another one *)
TagSamples ==
    {<< >>, <<T_d>>, <<T_s>>,
     <<T_d, T_abc>>, <<T_d, T_alice>>, <<T_d, << >>>>,
     <<T_s, T_initiated>>, <<T_s, T_abc>>,
     <<T_initiator, T_alice>>, <<T_initiator, T_abc>>,
     <<T_alice, T_abc>>,
     <<T_d, T_alice, T_abc>>}

TagListsUpTo(n) == UNION {[1..k -> TagSamples] : k \in 0..n}

CallParseTags ==
    /\ fn_in.fn = "parse_tags"
    /\ fn_out = None
    /\ fn_out' = Some(ParseTags(fn_in.arg))
    /\ UNCHANGED <<fn_in, hm_vars, cfg_vars, time_vars>>
    /\ UNCHANGED <<ev_vars, hb_vars, es_vars, http_vars, rc_vars, lk_vars>>

InitParser ==
    /\ InitCommon
    /\ OneRelay
    /\ alerts_config = AlertsConfigDefault
    /\ health_config = HealthConfigOff
    /\ TasksStarted
    /\ \E tags \in TagListsUpTo(MaxTags) : fn_in = [fn |-> "parse_tags", arg |-> tags]
    /\ fn_out = None

NextParser == CallParseTags

SpecParser == InitParser /\ [][NextParser]_vars

(* The positions of the tags that qualify for a key *)
Qualifying(tags, key) ==
    {i \in 1..Len(tags) : Len(tags[i]) >= 2 /\ tags[i][1] = key}

FieldOf(tags, key) ==
    IF Qualifying(tags, key) = {} THEN T_unknown
    ELSE LET last == CHOOSE i \in Qualifying(tags, key) :
                        \A j \in Qualifying(tags, key) : j <= i
         IN tags[last][2]

(* C11: parsing yields id, status and initiator from the second element of *)
(* the last tag of at least two elements whose first element is d, s and   *)
(* initiator; shorter tags and other keys are ignored; a field without a   *)
(* qualifying tag is "unknown"; the empty list yields all "unknown"; the   *)
(* call returns a value for every input.                                   *)
C11_ParseTags ==
    fn_in.fn = "parse_tags" /\ IsSome(fn_out) =>
        /\ Unwrap(fn_out) = [dispute_id |-> FieldOf(fn_in.arg, T_d),
                             status |-> FieldOf(fn_in.arg, T_s),
                             initiator |-> FieldOf(fn_in.arg, T_initiator)]
        /\ fn_in.arg = << >> =>
              Unwrap(fn_out) = [dispute_id |-> T_unknown, status |-> T_unknown,
                                initiator |-> T_unknown]

C11_Witness ==
    /\ fn_in.fn = "parse_tags"
    /\ fn_in.arg = <<<<T_d, T_abc>>, <<T_d>>, <<T_d, T_alice>>>>
    /\ IsSome(fn_out)
    /\ Unwrap(fn_out).dispute_id = T_alice
    /\ Unwrap(fn_out).status = T_unknown

----------------------------------------------------------------------------
(* escape_markdown and escape_markdown_code called on their own *)

MaxLen == 3             \* longest text escaped

(* The eighteen characters of special_chars, the backslash, a letter and   *)
(* a space                                                                 *)
TextChars ==
    {"_", "*", "[", "]", "(", ")", "~", BACKTICK, ">", "#", "+", "-", "=", "|",
     "{", "}", ".", "!", BACKSLASH, "a", " "}

TextsUpTo(n) == UNION {[1..k -> TextChars] : k \in 0..n}

CallEscapeMarkdown ==
    /\ fn_in.fn = "escape_markdown"
    /\ fn_out = None
    /\ fn_out' = Some(escape_markdown(fn_in.arg))
    /\ UNCHANGED <<fn_in, hm_vars, cfg_vars, time_vars>>
    /\ UNCHANGED <<ev_vars, hb_vars, es_vars, http_vars, rc_vars, lk_vars>>

CallEscapeMarkdownCode ==
    /\ fn_in.fn = "escape_markdown_code"
    /\ fn_out = None
    /\ fn_out' = Some(escape_markdown_code(fn_in.arg))
    /\ UNCHANGED <<fn_in, hm_vars, cfg_vars, time_vars>>
    /\ UNCHANGED <<ev_vars, hb_vars, es_vars, http_vars, rc_vars, lk_vars>>

InitEscape ==
    /\ InitCommon
    /\ OneRelay
    /\ alerts_config = AlertsConfigDefault
    /\ health_config = HealthConfigOff
    /\ TasksStarted
    /\ \E f \in {"escape_markdown", "escape_markdown_code"} :
          \E text \in TextsUpTo(MaxLen) : fn_in = [fn |-> f, arg |-> text]
    /\ fn_out = None

NextEscape ==
    \/ CallEscapeMarkdown
    \/ CallEscapeMarkdownCode

SpecEscape == InitEscape /\ [][NextEscape]_vars

(* The characters MarkdownV2 reserves, as the specification lists them *)
ReservedChars ==
    {"_", "*", "[", "]", "(", ")", "~", BACKTICK, ">", "#", "+", "-", "=", "|",
     "{", "}", ".", "!"}

(* out is text with one backslash put immediately before every character   *)
(* of the set, and every character of text copied in order                 *)
EscapedBy(set, text, out) ==
    LET before(i) == Cardinality({j \in 1..i : text[j] \in set})
    IN /\ Len(out) = Len(text) + before(Len(text))
       /\ \A i \in 1..Len(text) :
             /\ out[i + before(i)] = text[i]
             /\ text[i] \in set => out[i + before(i) - 1] = BACKSLASH

(* C16: escape_markdown puts exactly one backslash immediately before      *)
(* every character of the reserved set and copies every other character,   *)
(* the backslash included, unchanged and in order; for a text of reserved  *)
(* characters only the result is twice as long as the text.                *)
C16_EscapeFull ==
    fn_in.fn = "escape_markdown" /\ IsSome(fn_out) =>
        /\ EscapedBy(ReservedChars, fn_in.arg, Unwrap(fn_out))
        /\ (\A i \in 1..Len(fn_in.arg) : fn_in.arg[i] \in ReservedChars)
              => Len(Unwrap(fn_out)) = 2 * Len(fn_in.arg)

C16_Witness ==
    /\ fn_in.fn = "escape_markdown"
    /\ fn_in.arg = <<"!", BACKSLASH, "a">>
    /\ fn_out = Some(<<BACKSLASH, "!", BACKSLASH, "a">>)

(* C17: escape_markdown_code puts one backslash before every backtick and  *)
(* every backslash and copies every other character unchanged and in       *)
(* order; the other seventeen reserved characters are never escaped.       *)
C17_EscapeCode ==
    fn_in.fn = "escape_markdown_code" /\ IsSome(fn_out) =>
        /\ EscapedBy({BACKTICK, BACKSLASH}, fn_in.arg, Unwrap(fn_out))
        /\ (\A i \in 1..Len(fn_in.arg) :
               fn_in.arg[i] \in ReservedChars \ {BACKTICK})
              => Unwrap(fn_out) = fn_in.arg

C17_Witness ==
    /\ fn_in.fn = "escape_markdown_code"
    /\ fn_in.arg = <<BACKSLASH, BACKTICK, "_">>
    /\ fn_out = Some(<<BACKSLASH, BACKSLASH, BACKSLASH, BACKTICK, "_">>)

----------------------------------------------------------------------------
(* chrono_timestamp called on its own *)

MaxYear == 2099         \* last year of the timestamps formatted

SECS_PER_DAY == 86400

(* A u64 of seconds, written in base 86400 as q * 86400 + r: the values of *)
(* the operating range are beyond the 32-bit integers of TLC.  The cast    *)
(* to i64 changes no value below 2^63.                                     *)
UnixSecs(q, r) == [q |-> q, r |-> r]

(* secs / 86400 and secs % 86400 *)
DivDay(unix) == unix.q
ModDay(unix) == unix.r

(* The 400 rule left out *)
IsLeapYear_NoFourHundred(y) == y % 4 = 0 /\ y % 100 # 0

IsLeapYear(y) == y % 4 = 0 /\ (y % 100 # 0 \/ y % 400 = 0)

(* The loop over years: [y, remaining] when it breaks *)
RECURSIVE YearLoop(_, _)
YearLoop(y, remaining) ==
    LET days_in_year == IF IsLeapYear(y) THEN 366 ELSE 365
    IN IF remaining < days_in_year
       THEN [y |-> y, remaining |-> remaining]
       ELSE YearLoop(y + 1, remaining - days_in_year)

month_days(leap) ==
    <<31, IF leap THEN 29 ELSE 28, 31, 30, 31, 30, 31, 31, 30, 31, 30, 31>>

(* The loop over month_days: [m, remaining] when it breaks or ends *)
RECURSIVE MonthLoop(_, _, _)
MonthLoop(md, m, remaining) ==
    IF m = Len(md) \/ remaining < md[m + 1]
    THEN [m |-> m, remaining |-> remaining]
    ELSE MonthLoop(md, m + 1, remaining - md[m + 1])

DigitChar(n) == <<"0", "1", "2", "3", "4", "5", "6", "7", "8", "9">>[n + 1]

RECURSIVE Decimal(_)
Decimal(n) ==
    IF n < 10 THEN <<DigitChar(n)>>
    ELSE Decimal(n \div 10) \o <<DigitChar(n % 10)>>

(* {:0w}: the decimal digits, filled with zeros on the left up to width w *)
ZeroPadded(n, w) ==
    LET digits == Decimal(n)
    IN IF Len(digits) >= w THEN digits
       ELSE [i \in 1..(w - Len(digits)) |-> "0"] \o digits

chrono_timestamp(unix) ==
    LET days == DivDay(unix)
        time_secs == ModDay(unix)
        hours == time_secs \div 3600
        minutes == (time_secs % 3600) \div 60
        seconds == time_secs % 60
        yr == YearLoop(1970, days)
        leap == IsLeapYear(yr.y)
        mr == MonthLoop(month_days(leap), 0, yr.remaining)
    IN ZeroPadded(yr.y, 4) \o <<"-">> \o ZeroPadded(mr.m + 1, 2) \o <<"-">>
       \o ZeroPadded(mr.remaining + 1, 2) \o <<" ">>
       \o ZeroPadded(hours, 2) \o <<":">> \o ZeroPadded(minutes, 2) \o <<":">>
       \o ZeroPadded(seconds, 2) \o <<" ", "U", "T", "C">>

CallChronoTimestamp ==
    /\ fn_in.fn = "chrono_timestamp"
    /\ fn_out = None
    /\ fn_out' = Some(chrono_timestamp(fn_in.arg))
    /\ UNCHANGED <<fn_in, hm_vars, cfg_vars, time_vars>>
    /\ UNCHANGED <<ev_vars, hb_vars, es_vars, http_vars, rc_vars, lk_vars>>

(* Leap years before year y, and the days from 1970-01-01 to January 1st   *)
(* of year y, in the proleptic Gregorian calendar                          *)
LeapsBefore(y) == ((y - 1) \div 4) - ((y - 1) \div 100) + ((y - 1) \div 400)
DaysBeforeYear(y) == 365 * (y - 1970) + LeapsBefore(y) - LeapsBefore(1970)

(* Every midnight and every last second of a day from 1970 through         *)
(* MaxYear, and chosen times of the first day and of 2020-02-29            *)
DaySamples == 0..(DaysBeforeYear(MaxYear + 1) - 1)
TimeSamples == {0, 1, 59, 60, 3599, 3600, 3661, 43200, 86399}
Timestamps ==
    {UnixSecs(d, r) : d \in DaySamples, r \in {0, SECS_PER_DAY - 1}}
    \cup {UnixSecs(d, r) : d \in {0, 18321}, r \in TimeSamples}

InitTimestamp ==
    /\ InitCommon
    /\ OneRelay
    /\ alerts_config = AlertsConfigDefault
    /\ health_config = HealthConfigOff
    /\ TasksStarted
    /\ \E unix \in Timestamps : fn_in = [fn |-> "chrono_timestamp", arg |-> unix]
    /\ fn_out = None

NextTimestamp == CallChronoTimestamp

SpecTimestamp == InitTimestamp /\ [][NextTimestamp]_vars

(* Reading the rendered text back *)
DigitValue(c) == CHOOSE n \in 0..9 : DigitChar(n) = c
IsDigit(c) == \E n \in 0..9 : DigitChar(n) = c
TwoDigits(text, i) == 10 * DigitValue(text[i]) + DigitValue(text[i + 1])
FourDigits(text, i) == 100 * TwoDigits(text, i) + TwoDigits(text, i + 2)

GregorianLeap(y) == (y % 4 = 0 /\ y % 100 # 0) \/ y % 400 = 0
MonthLength(y, m) ==
    IF m = 2 THEN (IF GregorianLeap(y) THEN 29 ELSE 28)
    ELSE IF m \in {4, 6, 9, 11} THEN 30 ELSE 31
DaysBeforeMonth(y, m) ==
    <<0, 31, 59, 90, 120, 151, 181, 212, 243, 273, 304, 334>>[m]
    + (IF GregorianLeap(y) /\ m > 2 THEN 1 ELSE 0)

(* text is "YYYY-MM-DD hh:mm:ss UTC", a date of the calendar, and the      *)
(* fields converted back give the day and the second of the day of unix    *)
RendersTimestamp(text, unix) ==
    /\ Len(text) = 23
    /\ \A i \in {1, 2, 3, 4, 6, 7, 9, 10, 12, 13, 15, 16, 18, 19} : IsDigit(text[i])
    /\ text[5] = "-" /\ text[8] = "-" /\ text[11] = " "
    /\ text[14] = ":" /\ text[17] = ":"
    /\ SubSeq(text, 20, 23) = <<" ", "U", "T", "C">>
    /\ LET y == FourDigits(text, 1)
           m == TwoDigits(text, 6)
           d == TwoDigits(text, 9)
           hh == TwoDigits(text, 12)
           mm == TwoDigits(text, 15)
           ss == TwoDigits(text, 18)
       IN /\ m \in 1..12
          /\ d \in 1..MonthLength(y, m)
          /\ hh \in 0..23 /\ mm \in 0..59 /\ ss \in 0..59
          /\ DaysBeforeYear(y) + DaysBeforeMonth(y, m) + (d - 1) = unix.q
          /\ 3600 * hh + 60 * mm + ss = unix.r

(* C18: for every timestamp from 1970 through 2099 chrono_timestamp        *)
(* renders the proleptic Gregorian UTC date and time: a month of 1..12, a  *)
(* day within the length of that month under the 4/100/400 rule, the time  *)
(* of day from t mod 86400, and the fields converted back give t.          *)
C18_TimestampRendering ==
    fn_in.fn = "chrono_timestamp" /\ IsSome(fn_out) =>
        RendersTimestamp(Unwrap(fn_out), fn_in.arg)

(* 1582934400 = 18321 * 86400 is rendered as the leap day of 2020 *)
C18_Witness ==
    /\ fn_in.fn = "chrono_timestamp"
    /\ fn_in.arg = UnixSecs(18321, 0)
    /\ fn_out = Some(<<"2","0","2","0","-","0","2","-","2","9"," ",
                       "0","0",":","0","0",":","0","0"," ","U","T","C">>)

----------------------------------------------------------------------------
(* The four switches of HealthConfig *)

(* The switches set in every way that turns at most n tasks on *)
SwitchSettingsUpTo(n) ==
    {c \in [heartbeat_enabled : BOOLEAN, threshold : {0, MaxThreshold},
            check_relays : BOOLEAN, enable_http_endpoint : BOOLEAN] :
        Cardinality({s \in {"hb", "es", "rc", "http"} :
                        \/ s = "hb" /\ c.heartbeat_enabled
                        \/ s = "es" /\ c.threshold > 0
                        \/ s = "rc" /\ c.check_relays
                        \/ s = "http" /\ c.enable_http_endpoint}) <= n}

(* At least two tasks off *)
SwitchSettings == SwitchSettingsUpTo(2)

HealthConfigOf(c) ==
    [HealthConfigDefault EXCEPT
        !.heartbeat_enabled = c.heartbeat_enabled,
        !.heartbeat_interval = MaxInterval,
        !.event_alert_threshold = c.threshold,
        !.check_relays = c.check_relays,
        !.enable_http_endpoint = c.enable_http_endpoint]

(* Every relay connected, and no relay known *)
AllConnected == [u \in RelayUrls |-> "Connected"]

InitSwitches ==
    /\ InitCommon
    /\ NoCall
    /\ OneRelay
    /\ alerts_config = AlertsConfigOff
    /\ \E c \in SwitchSettings : health_config = HealthConfigOf(c)
    /\ TasksStarted

NextSwitches ==
    \/ AdvanceTime
    \/ HeartbeatTick
    \/ \E ok \in BOOLEAN : HeartbeatSendResult(ok)
    \/ SilenceTick
    \/ \E ok \in BOOLEAN : SilenceSendResult(ok)
    \/ \E stats \in {NoStats, AllConnected} : RelayTick(stats)
    \/ \E ok \in BOOLEAN : RelaySendResult(ok)
    \/ \E ok \in BOOLEAN : RelayAddRelay(ok)
    \/ RelayConnect
    \/ RelayPeriodPasses
    \/ \E ok \in BOOLEAN : HttpBind(ok)
    \/ HttpAcceptError
    \/ \E path \in {"/health", "/"} : HttpRequest(path)
    \/ HttpReadLastHeartbeat
    \/ HttpReadEventsProcessed
    \/ HttpRespond

SpecSwitches == InitSwitches /\ [][NextSwitches]_vars

(* C21: a task runs exactly when its own switch is on.  With the heartbeat *)
(* disabled nothing is sent by it and last_heartbeat stays None; with      *)
(* threshold 0 no silence alert is sent; with check_relays off no relay    *)
(* alert is sent and nothing is reconnected; with the endpoint disabled no *)
(* listener is opened and no request is answered.                          *)
C21_TaskRunsIffSwitchedOn ==
    /\ (hb_pc = "off") = ~health_config.heartbeat_enabled
    /\ (es_pc = "off") = (health_config.event_alert_threshold = 0)
    /\ (rc_pc = "off") = ~health_config.check_relays
    /\ (http_listener = "off") = ~health_config.enable_http_endpoint
    /\ ~health_config.heartbeat_enabled =>
          /\ hb_sends = 0 /\ hb_result = "none" /\ hb_msg = NoHeartbeatMsg
          /\ last_heartbeat = None
    /\ health_config.event_alert_threshold = 0 =>
          es_result = "none" /\ es_sent_at = None /\ last_alert = UNIX_EPOCH
    /\ ~health_config.check_relays =>
          /\ rc_ticks = 0 /\ rc_sends = 0 /\ rc_result = "none"
          /\ rc_added = << >> /\ rc_connects = 0
    /\ ~health_config.enable_http_endpoint =>
          http_req = NoRequest /\ http_response = NoResponse

C21_Witness ==
    /\ ~health_config.heartbeat_enabled
    /\ ~health_config.enable_http_endpoint
    /\ es_result = "ok"
    /\ rc_connects = 1
    /\ hb_sends = 0
    /\ last_heartbeat = None
    /\ http_listener = "off"

----------------------------------------------------------------------------
(* The schedule of the heartbeat task *)

HeartbeatTickStep == hb_pc = "tick" /\ hb_pc' = "send"

----------------------------------------------------------------------------
(* The event loop beside one health task at a time *)

InitWriters ==
    /\ InitCommon
    /\ NoCall
    /\ OneRelay
    /\ alerts_config = AlertsConfigOff
    /\ \E c \in SwitchSettingsUpTo(1) : health_config = HealthConfigOf(c)
    /\ TasksStarted

NextWriters ==
    \/ EventLoopStep
    \/ NextSwitches

SpecWriters == InitWriters /\ [][NextWriters]_vars

(* C23: last_event_time and events_processed are changed by steps of the   *)
(* event loop only, last_heartbeat by steps of the heartbeat task only;    *)
(* steps of the silence task, the relay task and the status probe change   *)
(* no HealthMonitor field; start_time and is_healthy are changed by none.  *)
C23_SingleWriter ==
    [][/\ (last_event_time' # last_event_time \/ events_processed' # events_processed)
             => /\ ev_pc' # ev_pc
                /\ UNCHANGED <<hb_vars, es_vars, rc_vars, http_vars>>
                /\ UNCHANGED last_heartbeat
       /\ last_heartbeat' # last_heartbeat
             => /\ hb_pc' # hb_pc
                /\ UNCHANGED <<ev_vars, es_vars, rc_vars, http_vars>>
       /\ (es_vars' # es_vars \/ rc_vars' # rc_vars \/ http_vars' # http_vars)
             => UNCHANGED hm_vars
       /\ UNCHANGED <<start_time, is_healthy>>]_vars

C23_Witness ==
    /\ es_result = "ok"
    /\ events_processed = 1
    /\ IsSome(last_event_time)
    /\ last_heartbeat = None
    /\ es_pc = "tick"
    /\ ev_pc = "wait"

----------------------------------------------------------------------------
(* The tasks at the locks of HealthMonitor *)

InitLocks ==
    /\ InitCommon
    /\ NoCall
    /\ OneRelay
    /\ alerts_config = AlertsConfigDefault
    /\ health_config = [HealthConfigDefault EXCEPT !.enable_http_endpoint = TRUE]
    /\ TasksStarted

NextLocks ==
    \E t \in Tasks :
        \/ LockAwaitDone(t)
        \/ LockAcquire(t)
        \/ LockStatementEnd(t)
        \/ LockSkip(t)

SpecLocks == InitLocks /\ [][NextLocks]_vars

AtAwait(t) == Program(t)[lk_pc[t]].kind = "await"

(* Whoever holds a lock that t asks for is inside the statement that took  *)
(* it, which ends without waiting for anything                             *)
HoldersAreLeaving(t) ==
    \A u \in Tasks \ {t} :
        \A g \in lk_held[u] :
            g.field = Program(t)[lk_pc[t]].field
                => ~AtAwait(u) /\ ENABLED LockStatementEnd(u)

(* C24: no task blocks another through the HealthMonitor.  A task holds at *)
(* most one lock at a time and none while it awaits a timer, a             *)
(* notification, the network or a send; a lock that a task asks for is     *)
(* free or held by a task about to release it, so there is no deadlock;    *)
(* with every other task stalled in an await, the event loop can take the  *)
(* locks of record_event and the heartbeat task its own.                   *)
C24_NoBlockingThroughLocks ==
    /\ \A t \in Tasks : Cardinality(lk_held[t]) <= 1
    /\ \A t \in Tasks : AtAwait(t) => lk_held[t] = {}
    /\ \A t \in Tasks : ~AtAwait(t) => HoldersAreLeaving(t)
    /\ ENABLED NextLocks
    /\ \A t \in {"ev", "hb"} :
          (~AtAwait(t) /\ lk_held[t] = {} /\ \A u \in Tasks \ {t} : AtAwait(u))
              => ENABLED LockAcquire(t)

(* record_event at its second lock while a probe client stalls before its  *)
(* response is read, another before its request, and every send is pending *)
C24_Witness ==
    /\ lk_held["ev"] = {[kind |-> "write", field |-> "events_processed"]}
    /\ Program("http1")[lk_pc["http1"]].field = "response"
    /\ Program("http2")[lk_pc["http2"]].field = "request"
    /\ Program("hb")[lk_pc["hb"]].field = "send_message"
    /\ Program("es")[lk_pc["es"]].field = "send_message"
    /\ Program("rc")[lk_pc["rc"]].field = "send_message"

----------------------------------------------------------------------------
(* DisputeMessage: the text that the format! of the chosen arm produces.   *)
(* A literal stretch of a format string is a sequence of chunks; a chunk   *)
(* of several characters stands for that run of literal text (a pictogram  *)
(* is written by its name in brackets), and the backtick, the backslash    *)
(* and the full stop of the literal text are characters of their own.      *)

NL == "\n"

(* The format string of a template, cut at its {} holes *)
TemplatePieces(template) ==
    CASE template = "NEW DISPUTE" ->
           << <<"[rotating light] *NEW DISPUTE*", NL, NL,
                "[clipboard] *Dispute ID:* ", BACKTICK>>,
              <<BACKTICK, NL, "[bust] *Initiated by:* ">>,
              <<NL, "[alarm clock] *Time:* ">>,
              <<NL, NL,
                "[high voltage] Please take this dispute in Mostrix or your admin client",
                BACKSLASH, ".">> >>
      [] template = "DISPUTE IN PROGRESS" ->
           << <<"[arrows] *DISPUTE IN PROGRESS*", NL, NL,
                "[clipboard] *Dispute ID:* ", BACKTICK>>,
              <<BACKTICK, NL, "[judge] *Status:* Taken by solver", NL,
                "[alarm clock] *Time:* ">>,
              <<NL, NL, "[information] Dispute is now being handled",
                BACKSLASH, ".">> >>
      [] template = "DISPUTE RESOLVED: Seller refunded" ->
           << <<"[money bag] *DISPUTE RESOLVED*", NL, NL,
                "[clipboard] *Dispute ID:* ", BACKTICK>>,
              <<BACKTICK, NL, "[check mark] *Resolution:* Seller refunded", NL,
                "[alarm clock] *Time:* ">>,
              <<NL, NL, "[check] Dispute closed: funds returned to seller",
                BACKSLASH, ".">> >>
      [] template = "DISPUTE RESOLVED: Payment to buyer" ->
           << <<"[check mark] *DISPUTE RESOLVED*", NL, NL,
                "[clipboard] *Dispute ID:* ", BACKTICK>>,
              <<BACKTICK, NL, "[money with wings] *Resolution:* Payment to buyer", NL,
                "[alarm clock] *Time:* ">>,
              <<NL, NL, "[check] Dispute closed: buyer receives payment",
                BACKSLASH, ".">> >>
      [] template = "DISPUTE RESOLVED: Released by seller" ->
           << <<"[open lock] *DISPUTE RESOLVED*", NL, NL,
                "[clipboard] *Dispute ID:* ", BACKTICK>>,
              <<BACKTICK, NL, "[handshake] *Resolution:* Released by seller", NL,
                "[alarm clock] *Time:* ">>,
              <<NL, NL, "[check] Dispute closed: trade completed",
                BACKSLASH, ".">> >>
      [] OTHER ->
           << <<"[satellite] *DISPUTE STATUS UPDATE*", NL, NL,
                "[clipboard] *Dispute ID:* ", BACKTICK>>,
              <<BACKTICK, NL, "[bar chart] *Status:* ">>,
              <<NL, "[alarm clock] *Time:* ">>,
              <<NL, NL, "[information] Status changed", BACKSLASH, ".">> >>

(* The timestamp passed as chrono_timestamp made it *)
FormatArgs_RawTimestamp(msg) ==
    msg.args \o <<chrono_timestamp(msg.created_at)>>

(* The arguments of the format!: those of the fields, then the timestamp   *)
FormatArgs(msg) ==
    msg.args \o <<escape_markdown(chrono_timestamp(msg.created_at))>>

(* format!: each {} replaced by the next argument *)
RECURSIVE Format(_, _)
Format(pieces, args) ==
    IF args = << >> THEN Head(pieces)
    ELSE Head(pieces) \o Head(args) \o Format(Tail(pieces), Tail(args))

RenderedMessage(msg) == Format(TemplatePieces(msg.template), FormatArgs(msg))

CallRenderMessage ==
    /\ fn_in.fn = "message"
    /\ fn_out = None
    /\ fn_out' = Some(RenderedMessage(Message(fn_in.arg.parsed, fn_in.arg.created_at)))
    /\ UNCHANGED <<fn_in, hm_vars, cfg_vars, time_vars>>
    /\ UNCHANGED <<ev_vars, hb_vars, es_vars, http_vars, rc_vars, lk_vars>>

(* Field values told apart by a letter of their own: x in dispute ids, y   *)
(* in initiators, z in statuses that are none of the five named ones       *)
IdSamples ==
    {T_unknown, <<"x">>, <<"x", BACKTICK>>, <<BACKSLASH, "x">>, <<"x", "_", "x">>,
     <<"x", "-", "1">>}
InitiatorSamples == {T_unknown, <<"y">>, <<"y", "_", "*">>, <<BACKSLASH, "y", BACKTICK>>}
StatusSamples ==
    {T_initiated, T_in_progress, T_seller_refunded, T_settled, T_released,
     T_unknown, <<"z">>, <<"z", ".", "!">>, <<"z", BACKTICK, BACKSLASH>>}
CreatedAtSamples == {UnixSecs(0, 0), UnixSecs(18321, 43200), UnixSecs(19722, 86399)}

InitMessage ==
    /\ InitCommon
    /\ OneRelay
    /\ alerts_config = AlertsConfigDefault
    /\ health_config = HealthConfigOff
    /\ TasksStarted
    /\ \E id \in IdSamples, st \in StatusSamples, who \in InitiatorSamples,
          unix \in CreatedAtSamples :
          fn_in = [fn |-> "message",
                   arg |-> [parsed |-> [dispute_id |-> id, status |-> st,
                                         initiator |-> who],
                            created_at |-> unix]]
    /\ fn_out = None

NextMessage == CallRenderMessage

SpecMessage == InitMessage /\ [][NextMessage]_vars

EscapedLen(set, text) == Len(text) + Cardinality({j \in 1..Len(text) : text[j] \in set})

Unescaped(text) == SelectSeq(text, LAMBDA c : c # BACKSLASH)

(* The field's text, escaped over set, stands in text from position i on,  *)
(* right after a stretch of literal text                                   *)
StandsAt(text, i, set, field) ==
    /\ i >= 2
    /\ i + EscapedLen(set, field) - 1 <= Len(text)
    /\ EscapedBy(set, field, SubSeq(text, i, i + EscapedLen(set, field) - 1))

(* The code span of the dispute id opens at position i *)
CodeSpanAt(text, i, id) ==
    /\ text[i] = BACKTICK
    /\ StandsAt(text, i + 1, {BACKTICK, BACKSLASH}, id)
    /\ i + EscapedLen({BACKTICK, BACKSLASH}, id) + 1 <= Len(text)
    /\ text[i + EscapedLen({BACKTICK, BACKSLASH}, id) + 1] = BACKTICK

(* The escaped timestamp of created_at stands at i, before a line end *)
TimeAt(text, i, unix) ==
    /\ i >= 2
    /\ i + 25 <= Len(text)
    /\ text[i + 25] = NL
    /\ RendersTimestamp(Unescaped(SubSeq(text, i, i + 24)), unix)
    /\ EscapedBy(ReservedChars, Unescaped(SubSeq(text, i, i + 24)),
                 SubSeq(text, i, i + 24))

(* C25: in every rendered dispute message the dispute id stands once, in a *)
(* code span, escaped by backslashes before backtick and backslash; the    *)
(* initiator stands only in the NEW DISPUTE template and the status only   *)
(* in the fallback template, each with every reserved character escaped;   *)
(* the timestamp of created_at stands in every template with its reserved  *)
(* characters escaped; outside the code span no reserved character of the  *)
(* message lacks its backslash.                                            *)
C25_MessageFields ==
    (fn_in.fn = "message" /\ fn_out # None) =>
        LET text == Unwrap(fn_out)
            p == fn_in.arg.parsed
            span == EscapedLen({BACKTICK, BACKSLASH}, p.dispute_id)
        IN /\ Cardinality({i \in 1..Len(text) : CodeSpanAt(text, i, p.dispute_id)}) = 1
           /\ Occurrences(text, "x") = Occurrences(p.dispute_id, "x")
           /\ Occurrences(text, "y")
                 = IF p.status = T_initiated THEN Occurrences(p.initiator, "y") ELSE 0
           /\ p.status = T_initiated
                 => \E i \in 1..Len(text) : StandsAt(text, i, ReservedChars, p.initiator)
           /\ Occurrences(text, "z")
                 = IF p.status \in NamedStatuses THEN 0 ELSE Occurrences(p.status, "z")
           /\ p.status \notin NamedStatuses
                 => \E i \in 1..Len(text) : StandsAt(text, i, ReservedChars, p.status)
           /\ \E i \in 1..Len(text) : TimeAt(text, i, fn_in.arg.created_at)
           /\ \A i \in 1..Len(text) :
                 CodeSpanAt(text, i, p.dispute_id)
                     => \A k \in (1..Len(text)) \ (i..(i + span + 1)) :
                           text[k] \in ReservedChars
                               => k >= 2 /\ text[k - 1] = BACKSLASH

(* A fallback message whose id, status and timestamp all needed escaping *)
C25_Witness ==
    /\ fn_in.fn = "message"
    /\ fn_out # None
    /\ fn_in.arg.parsed.dispute_id = <<"x", BACKTICK>>
    /\ fn_in.arg.parsed.status = <<"z", ".", "!">>
    /\ fn_in.arg.parsed.initiator = <<"y", "_", "*">>
    /\ fn_in.arg.created_at = UnixSecs(18321, 43200)
    /\ Len(Unwrap(fn_out)) = 48

----------------------------------------------------------------------------
(* C26: for every configuration that Config::load accepts, each periodic   *)
(* task that is switched on starts with a tick period above zero: the      *)
(* heartbeat task with heartbeat_interval, the event-silence task with     *)
(* the integer quotient threshold / 2 for every threshold > 0, the relay   *)
(* task with its fixed period; no task stops at the creation of its        *)
(* interval.                                                               *)
C26_PositiveTickPeriods ==
    ConfigLoadAccepts(health_config) =>
        /\ health_config.heartbeat_enabled => health_config.heartbeat_interval > 0
        /\ health_config.event_alert_threshold > 0
              => /\ health_config.event_alert_threshold \div 2 > 0
                 /\ es_pc # "panicked"
        /\ health_config.check_relays => RELAY_CHECK_SECS > 0

----------------------------------------------------------------------------
(* C27: whenever the event-silence task ticks while                        *)
(* should_alert_no_events(threshold) holds and no silence alert has been   *)
(* sent successfully in the threshold seconds before the tick, the tick    *)
(* starts a send; in particular the first alert is never held back by the  *)
(* initial last_alert.                                                     *)
C27_SilenceAlertAttempted ==
    [][(/\ SilenceTickStep
        /\ should_alert_no_events(health_config.event_alert_threshold)
        /\ \/ es_prev_sent_at = None
           \/ mono - Unwrap(es_prev_sent_at) >= health_config.event_alert_threshold)
          => es_pc' = "send"]_vars

----------------------------------------------------------------------------
(* C28: dispute events are handled one at a time, in the order of their    *)
(* delivery.  A notification is taken only while no event is being         *)
(* handled, so record_event for the next event starts only after the send  *)
(* for the one before has returned; a send is started only for the event   *)
(* delivered last, at most once, and while it is under way neither the     *)
(* event nor the count of delivered events changes: the sink receives the  *)
(* alerts in the order of delivery.                                        *)
C28_OneEventAtATime ==
    [][/\ (event' # event \/ delivered' # delivered)
             => /\ ev_pc = "wait"
                /\ ev_result # "pending"
                /\ delivered' \in {delivered, delivered + 1}
       /\ ev_attempts' # ev_attempts
             => /\ ev_pc = "handle" /\ ev_pc' = "send"
                /\ ev_attempts' = ev_attempts + 1
                /\ ev_sends = 0
                /\ event' = event
                /\ ev_msg' = Message(ParseTags(event.tags), event.created_at)
       /\ ev_pc = "send"
             => /\ event' = event /\ delivered' = delivered /\ ev_msg' = ev_msg
                /\ ev_attempts' = ev_attempts
                /\ ev_result = "pending"]_vars

(* The alert of the second event under way after that of the first failed *)
C28_Witness ==
    /\ delivered = 2
    /\ ev_attempts = 2
    /\ ev_errors = 1
    /\ ev_pc = "send"
    /\ ev_result = "pending"

(* C29: the send_message calls of the event loop made so far are at most   *)
(* events_processed, and while a dispute alert is being sent               *)
(* last_event_time is set.                                                 *)
C29_SendsWithinEventsProcessed ==
    /\ ev_attempts <= events_processed
    /\ ev_pc = "send" => IsSome(last_event_time) /\ events_processed >= 1

(* Every event so far has had its alert attempted, the second under way *)
C29_Witness ==
    /\ ev_pc = "send"
    /\ ev_attempts = 2
    /\ events_processed = 2
    /\ IsSome(last_event_time)
    /\ ev_errors = 0

----------------------------------------------------------------------------
(* C30: is_healthy is true in every reachable state, and every response of *)
(* the status probe to /health reports the status "healthy", whatever      *)
(* sends or relays have failed and however long no event has come.         *)
C30_AlwaysHealthy ==
    /\ is_healthy = TRUE
    /\ http_response.status = 200 => http_response.body.status = "healthy"

(* A probe answered after relays were found failed and their alert could   *)
(* not be sent                                                             *)
C30_Witness ==
    /\ http_response.status = 200
    /\ http_response.body.status = "healthy"
    /\ http_req.path = "/health"
    /\ http_pc = "idle"
    /\ rc_failed # << >>
    /\ rc_result = "err"
    /\ http_response.body.uptime_seconds > 0

----------------------------------------------------------------------------
(* The backslashes that stand in a row right before position k of text *)
BackslashRunBefore(text, k) ==
    Cardinality({j \in 1..(k - 1) : \A i \in j..(k - 1) : text[i] = BACKSLASH})

(* C31: in the output of escape_markdown every reserved character is       *)
(* preceded by an odd number of backslashes in a row, so that it is        *)
(* escaped under backslash-escape rules, for every input, one that holds   *)
(* backslashes included.                                                   *)
C31_ReservedEffectivelyEscaped ==
    (fn_in.fn = "escape_markdown" /\ IsSome(fn_out)) =>
        \A k \in 1..Len(Unwrap(fn_out)) :
            Unwrap(fn_out)[k] \in ReservedChars
                => BackslashRunBefore(Unwrap(fn_out), k) % 2 = 1

====
